---- MODULE Spec2Model ----
(***************************************************************************)
(* Connection pool of dbcooper: PoolManager (database/pool_manager.rs) and *)
(* the pool commands with their ensure-connected / reconnect-once retry    *)
(* policy (commands/pool.rs).                                              *)
(*                                                                         *)
(* Every async function is cut into steps at its suspension points: each   *)
(* acquisition of the pool map's RwLock, each acquisition of the           *)
(* per-identifier connect lock, each driver / tunnel / metadata await.     *)
(* A task is one caller running one command.                               *)
(***************************************************************************)
EXTENDS Integers, Sequences, FiniteSets, TLC

\* ------------------------------------------------------------------ bounds

\* Concurrent callers.
NumTasks == 2

Tasks == 1..NumTasks

\* Connection identifiers (uuid).
IDs == {"A"}

\* Two identifiers, for what concerns more than one.
PairIDs == {"A", "B"}

\* Longest primary key and longest list of updates / values of a row
\* mutation.
MaxPk == 2

MaxItems == 1

\* ----------------------------------------------------------------- values

Connected == "Connected"
Disconnected == "Disconnected"
Reconnecting == "Reconnecting"

\* Option::None of last_error, of an error argument, of a result message.
NoError == "none"

ErrSshHost == "SSH host is required"
ErrSshUser == "SSH user is required"
ErrRemoteHost == "Remote host is required"
ErrFilePath == "File path is required for SQLite connections"
ErrUnsupported == "Unsupported database type"
ErrNoRecord == "Failed to get connection"
ErrNotFound == "Connection not found"
\* Messages produced by the collaborators (tunnel bootstrapper, drivers).
ErrTunnel == "ssh tunnel failed"
ErrTestFault == "test_connection fault"
MsgTestFailed == "test_connection unsuccessful"
ErrDriverOp == "driver operation failed"
MsgMarked == "marked by caller"

ErrPkMismatch == "Primary key columns and values must match"
ErrNoUpdates == "No updates provided"
ErrNoValues == "No values provided"
ErrItemShape == "Each update must be an object"
ErrRawSql == "Invalid raw SQL value"
ErrRawString == "Raw SQL value must be a string"

ConfigErrors == {ErrSshHost, ErrSshUser, ErrRemoteHost, ErrFilePath, ErrUnsupported}

\* ConnectionConfig, reduced to the fields create_driver branches on; an
\* Option field is TRUE when it is Some.
Cfg(t, fp, h, ssh, sh, su) ==
    [db_type |-> t, file_path |-> fp, host |-> h,
     ssh_enabled |-> ssh, ssh_host |-> sh, ssh_user |-> su]

NoCfg == Cfg("-", FALSE, FALSE, FALSE, FALSE, FALSE)

Configs ==
    { Cfg("postgres", FALSE, TRUE, FALSE, FALSE, FALSE),
      Cfg("postgres", FALSE, TRUE, TRUE, TRUE, TRUE),
      Cfg("postgres", FALSE, TRUE, TRUE, FALSE, TRUE),
      Cfg("postgres", FALSE, TRUE, TRUE, TRUE, FALSE),
      Cfg("postgres", FALSE, FALSE, TRUE, TRUE, TRUE),
      Cfg("sqlite", FALSE, TRUE, FALSE, FALSE, FALSE),
      Cfg("sqlite", FALSE, TRUE, TRUE, TRUE, TRUE),
      Cfg("mysql", FALSE, TRUE, FALSE, FALSE, FALSE),
      Cfg("mysql", FALSE, TRUE, TRUE, TRUE, TRUE) }

\* Every ConnectionConfig over the fields create_driver branches on.
AllConfigs ==
    { Cfg(t, fp, h, ssh, sh, su) :
        t \in {"postgres", "postgresql", "sqlite", "sqlite3", "redis",
                "clickhouse", "mysql"},
        fp \in BOOLEAN, h \in BOOLEAN, ssh \in BOOLEAN, sh \in BOOLEAN,
        su \in BOOLEAN }

\* The connection record of the metadata store as get_connection_config and
\* pool_connect turn it into a ConnectionConfig: host is always Some.
StoreConfigs == {c \in Configs : c.host}

\* ------------------------------------------------------------------ state

VARIABLES
    pools,      \* PoolManager.pools: uuid -> PoolEntry (a partial map)
    drivers,    \* the drivers some Arc still refers to: handle -> attributes
    tunnels,    \* the SSH tunnels that are open now (by their driver's handle)
    lock,       \* holder of each identifier's connect lock, 0 when free
    task        \* each caller's command, position and locals

vars == <<pools, drivers, tunnels, lock, task>>

\* PoolEntry.  driver is the shared handle (a number naming the driver
\* object), ssh_tunnel names the owned tunnel by its driver (0: None);
\* last_used tells which operation took the Instant: the connect that built
\* the entry or a later touch.
PoolEntry(d, c, s, e, t) ==
    [driver |-> d, config |-> c, status |-> s, last_error |-> e, ssh_tunnel |-> t,
     last_used |-> "connect"]

\* A driver object: whether it connects through an SSH tunnel, and whether a
\* test_connection of it has succeeded.
Driver(via) == [via |-> via, verified |-> FALSE]

\* Handles: at most one driver per pool entry and one per task are alive.
Handles == 1..(Cardinality(PairIDs) + NumTasks)

\* What a command returned: Ok or Err, with the status and error of a
\* ConnectionStatusResponse, the success flag of a TestConnectionResult, the
\* message, and the driver handle where one is returned.
Ret(tag, st, su, m, h) ==
    [tag |-> tag, status |-> st, success |-> su, msg |-> m, handle |-> h]

NoRet == Ret("none", "-", FALSE, NoError, 0)

RetOk == Ret("Ok", "-", TRUE, NoError, 0)

RetErr(m) == Ret("Err", "-", FALSE, m, 0)

\* The arguments of a row mutation the commands branch on before they touch
\* the pool: the lengths of primary_key_columns and primary_key_values and of
\* updates / values, what the items are (well-formed plain values, a raw SQL
\* fragment the validator accepts or rejects, or not of the expected shape),
\* and whether the connection record can be read.
Req(pc, pv, n, frag, rec) ==
    [pk_cols |-> pc, pk_vals |-> pv, items |-> n, frag |-> frag, record |-> rec]

NoReq == Req(0, 0, 0, "-", FALSE)

Reqs ==
    { Req(pc, pv, n, frag, rec) :
        pc \in 0..MaxPk, pv \in 0..MaxPk, n \in 0..MaxItems,
        frag \in {"plain", "raw_ok", "raw_rejected", "malformed"},
        rec \in BOOLEAN }

IdleTask ==
    [pc |-> "idle", op |-> "-", uuid |-> "-", ctx |-> "-", cfg |-> NoCfg,
     drv |-> 0, tun |-> FALSE, tres |-> "-", cret |-> "none", attempts |-> 0,
     reconnects |-> 0, first |-> "-", second |-> "-", err1 |-> NoError,
     err2 |-> NoError, seen_absent |-> FALSE, req |-> NoReq, ret |-> NoRet]

Init ==
    /\ pools = << >>
    /\ drivers = << >>
    /\ tunnels = {}
    /\ lock = [i \in IDs |-> 0]
    /\ task = [p \in Tasks |-> IdleTask]

\* ---------------------------------------------------------------- helpers

Set(p, t) == task' = [task EXCEPT ![p] = t]

\* The command of task p returns r to its caller.
Return(t, r) == [IdleTask EXCEPT !.pc = "done", !.op = t.op, !.uuid = t.uuid,
                                 !.cret = t.cret, !.attempts = t.attempts,
                                 !.reconnects = t.reconnects,
                                 !.first = t.first, !.second = t.second,
                                 !.err1 = t.err1, !.err2 = t.err2,
                                 !.req = t.req, !.ret = r]

\* The handles held by the pool map P and by the tasks T.
Held(P, T) == {P[k].driver : k \in DOMAIN P} \cup {T[p].drv : p \in Tasks}

\* Arc: a driver is freed when its last handle is dropped.
Live(D, P, T) == [d \in DOMAIN D \cap Held(P, T) |-> D[d]]

\* The handle of a newly constructed driver.
Fresh == CHOOSE d \in Handles \ DOMAIN drivers :
            \A e \in Handles \ DOMAIN drivers : d <= e

Remove(P, id) == [k \in DOMAIN P \ {id} |-> P[k]]

Insert(P, id, e) == (id :> e) @@ P

\* An entry that keeps its tunnel open when it is dropped.
LeakedTunnel(P, id) == {}

\* The tunnel that is closed when the entry of id is dropped.
OwnedTunnel(P, id) ==
    IF id \in DOMAIN P /\ P[id].ssh_tunnel # 0 THEN {P[id].ssh_tunnel} ELSE {}

\* A get_status that takes an identifier without an entry for connected.
get_status_hopeful(P, id) == IF id \in DOMAIN P THEN P[id].status ELSE Connected

\* PoolManager reads.
get_status(P, id) == IF id \in DOMAIN P THEN P[id].status ELSE Disconnected

get_last_error(P, id) == IF id \in DOMAIN P THEN P[id].last_error ELSE NoError

get_cached(P, id) == IF id \in DOMAIN P THEN P[id].driver ELSE 0

\* --------------------------------------------------- PoolManager::create_driver

\* The SSH parameters create_driver requires before it opens a tunnel.
ssh_check(c) ==
    IF ~c.ssh_host THEN ErrSshHost
    ELSE IF ~c.ssh_user THEN ErrSshUser
    ELSE IF ~c.host THEN ErrRemoteHost
    ELSE "ok"

\* The match on db_type: the error, or "ok" and whether the tunnel is
\* returned with the driver (the sqlite arm returns None for it).
select_driver(c) ==
    CASE c.db_type \in {"postgres", "postgresql"} ->
           [err |-> "ok", keep_tunnel |-> TRUE]
      [] c.db_type \in {"sqlite", "sqlite3"} ->
           IF c.file_path THEN [err |-> "ok", keep_tunnel |-> FALSE]
           ELSE [err |-> ErrFilePath, keep_tunnel |-> FALSE]
      [] c.db_type \in {"redis", "clickhouse"} ->
           [err |-> "ok", keep_tunnel |-> TRUE]
      [] OTHER -> [err |-> ErrUnsupported, keep_tunnel |-> FALSE]

\* ------------------------------------------------------------------- locks

\* The identifier's connect lock (get_connect_lock and Mutex::lock).
LockFree(id) == lock[id] = 0

Acquire(p, id) == lock' = [lock EXCEPT ![id] = p]

Release(id) == lock' = [lock EXCEPT ![id] = 0]

\* --------------------------------------- what the callers do with a result

\* get_connection, line 187: connect's result is the result.
GetConnectionRet(t, r) ==
    Return(t, IF r = "ok" THEN Ret("Ok", "-", TRUE, NoError, t.drv) ELSE RetErr(r))

\* pool_connect, lines 66-75: both results of connect become an Ok response.
PoolConnectRet(t, r) ==
    Return(t, IF r = "ok" THEN Ret("Ok", Connected, TRUE, NoError, 0)
              ELSE Ret("Ok", Disconnected, TRUE, r, 0))

\* ensure_connection, lines 170-171: connect's error is returned; after a
\* success the command goes on to its first attempt.
EnsureRet(t, r) ==
    IF r = "ok" THEN [t EXCEPT !.pc = "a_get", !.drv = 0, !.cfg = NoCfg]
    ELSE Return(t, RetErr(r))

\* reconnect, lines 188-189, and line 211 of the command: a failed reconnect
\* ends the command with its error; after a success the retry follows.
ReconnectRet(t, r) ==
    IF r = "ok" THEN [t EXCEPT !.pc = "a_get", !.drv = 0, !.cfg = NoCfg]
    ELSE Return(t, RetErr(r))

\* -------------------------------------------------------- PoolManager::connect

\* The drivers after a step that leaves the attributes D: those still held.
Collect(D) == drivers' = Live(D, pools', task')

\* connect returns r ("ok" for Ok(driver), else the message of Err) to the
\* function that called it.
ConnectReturn(t, r) ==
    LET u == [t EXCEPT !.cret = r, !.tres = "-"] IN
    CASE t.ctx = "get_connection" -> GetConnectionRet(u, r)
      [] t.ctx = "pool_connect" -> PoolConnectRet(u, r)
      [] t.ctx = "ensure" -> EnsureRet(u, r)
      [] t.ctx = "reconnect" -> ReconnectRet(u, r)

\* A guard that is kept when ensure_connection or reconnect returns.
GuardKept(t) == UNCHANGED lock

\* ensure_connection and reconnect hold the lock guard across connect and
\* drop it when they return.
GuardDropped(t) ==
    IF t.ctx \in {"ensure", "reconnect"} THEN Release(t.uuid) ELSE UNCHANGED lock

\* Lines 196-202: an existing entry is marked Reconnecting.
ConnectMark(p) ==
    LET t == task[p] IN
    /\ t.pc = "c_mark"
    /\ pools' = IF t.uuid \in DOMAIN pools
                 THEN [pools EXCEPT ![t.uuid].status = Reconnecting]
                 ELSE pools
    /\ Set(p, [t EXCEPT !.pc = "c_create"])
    /\ UNCHANGED <<drivers, tunnels, lock>>

\* The configs a connect may have been given: get_connection takes any, the
\* commands pass what they read from the metadata store.
GivenConfigs(t) == IF t.ctx = "get_connection" THEN Configs ELSE StoreConfigs

\* create_driver(c), lines 81-168: "ok" when a driver is returned, else the
\* error; tun tells whether SshTunnel::new was reached and opened a tunnel
\* (tunnel_ok is the bootstrapper's answer), via whether the tunnel is
\* returned with the driver.
create_driver(c, tunnel_ok) ==
    LET sel == select_driver(c) IN
    IF c.ssh_enabled
    THEN IF ssh_check(c) # "ok" THEN [res |-> ssh_check(c), tun |-> FALSE, via |-> FALSE]
         ELSE IF ~tunnel_ok THEN [res |-> ErrTunnel, tun |-> FALSE, via |-> FALSE]
         ELSE [res |-> sel.err, tun |-> TRUE, via |-> sel.err = "ok" /\ sel.keep_tunnel]
    ELSE [res |-> sel.err, tun |-> FALSE, via |-> FALSE]

\* A connect that records a failed create_driver as a Disconnected entry
\* carrying the error.
ConnectCreateStoring(p) ==
    LET t == task[p] IN
    /\ t.pc = "c_create"
    /\ \E c \in GivenConfigs(t), tunnel_ok \in BOOLEAN :
         LET r == create_driver(c, tunnel_ok)
             u == [t EXCEPT !.tun = r.tun]
         IN
         IF r.res # "ok"
         THEN /\ Set(p, ConnectReturn(u, r.res))
              /\ GuardDropped(t)
              /\ pools' = Insert(pools, t.uuid,
                                 PoolEntry(Fresh, c, Disconnected, r.res, 0))
              /\ drivers' = (Fresh :> Driver(FALSE)) @@ Live(drivers, pools', task')
              /\ tunnels' = tunnels \ OwnedTunnel(pools, t.uuid)
         ELSE /\ Set(p, [u EXCEPT !.pc = "c_test", !.drv = Fresh, !.cfg = c])
              /\ drivers' = (Fresh :> Driver(r.via)) @@ drivers
              /\ tunnels' = IF r.via THEN tunnels \cup {Fresh} ELSE tunnels
              /\ UNCHANGED <<lock, pools>>

\* Line 205: create_driver(&config).await?  The config is the one the caller
\* passed; nothing reads it before this line, so it is drawn here.
ConnectCreate(p) ==
    LET t == task[p] IN
    /\ t.pc = "c_create"
    /\ \E c \in GivenConfigs(t), tunnel_ok \in BOOLEAN :
         LET r == create_driver(c, tunnel_ok)
             u == [t EXCEPT !.tun = r.tun]
         IN
         IF r.res # "ok"
         THEN /\ Set(p, ConnectReturn(u, r.res))
              /\ GuardDropped(t)
              /\ UNCHANGED <<drivers, tunnels>>
         ELSE /\ Set(p, [u EXCEPT !.pc = "c_test", !.drv = Fresh, !.cfg = c])
              /\ drivers' = (Fresh :> Driver(r.via)) @@ drivers
              /\ tunnels' = IF r.via THEN tunnels \cup {Fresh} ELSE tunnels
              /\ UNCHANGED lock
    /\ UNCHANGED pools

\* What test_connection of driver d can answer: a fault (Err), or a result
\* with success true or false; a driver whose tunnel is closed cannot succeed.
TestOutcomes(d) ==
    IF drivers[d].via /\ d \notin tunnels THEN {"fail", "fault"}
    ELSE {"ok", "fail", "fault"}

\* A successful test verifies the driver.
Tested(d, r) == [drivers EXCEPT ![d].verified = @ \/ r = "ok"]

\* Line 209: driver.test_connection().await?  A fault returns from connect,
\* dropping the driver and its tunnel.
ConnectTest(p) ==
    LET t == task[p]
        d == t.drv
    IN
    /\ t.pc = "c_test"
    /\ \E r \in TestOutcomes(d) :
         /\ IF r = "fault"
            THEN /\ Set(p, ConnectReturn([t EXCEPT !.drv = 0], ErrTestFault))
                 /\ tunnels' = tunnels \ {d}
                 /\ GuardDropped(t)
            ELSE /\ Set(p, [t EXCEPT !.pc = "c_insert", !.tres = r])
                 /\ UNCHANGED <<tunnels, lock>>
         /\ UNCHANGED pools
         /\ Collect(Tested(d, r))

\* An entry that forgets the message of an unsuccessful test.
NewEntrySilent(t) ==
    PoolEntry(t.drv, t.cfg,
              IF t.tres = "ok" THEN Connected ELSE Disconnected,
              NoError,
              IF drivers[t.drv].via THEN t.drv ELSE 0)

\* Lines 211-228: the entry built from the test result.
NewEntry(t) ==
    PoolEntry(t.drv, t.cfg,
              IF t.tres = "ok" THEN Connected ELSE Disconnected,
              IF t.tres = "ok" THEN NoError ELSE MsgTestFailed,
              IF drivers[t.drv].via THEN t.drv ELSE 0)

\* A connect that, finding an entry, puts the new driver and tunnel into it
\* and leaves its other fields as they are.
ConnectInsertInPlace(p) ==
    LET t == task[p] IN
    /\ t.pc = "c_insert"
    /\ pools' = IF t.uuid \in DOMAIN pools
                 THEN [pools EXCEPT ![t.uuid].driver = t.drv,
                                    ![t.uuid].ssh_tunnel = NewEntry(t).ssh_tunnel]
                 ELSE Insert(pools, t.uuid, NewEntry(t))
    /\ tunnels' = tunnels \ OwnedTunnel(pools, t.uuid)
    /\ Set(p, IF NewEntry(t).status = Connected
              THEN ConnectReturn(t, "ok")
              ELSE ConnectReturn([t EXCEPT !.drv = 0], MsgTestFailed))
    /\ GuardDropped(t)
    /\ Collect(drivers)

\* Lines 230-240: the entry is stored, replacing (and dropping) the old one,
\* and connect returns the handle or the test's message.
ConnectInsert(p) ==
    LET t == task[p] IN
    /\ t.pc = "c_insert"
    /\ pools' = Insert(pools, t.uuid, NewEntry(t))
    /\ tunnels' = tunnels \ OwnedTunnel(pools, t.uuid)
    /\ Set(p, IF NewEntry(t).status = Connected
              THEN ConnectReturn(t, "ok")
              ELSE ConnectReturn([t EXCEPT !.drv = 0], MsgTestFailed))
    /\ GuardDropped(t)
    /\ Collect(drivers)

\* ----------------------------------------- PoolManager: the other operations

\* Starting a connect: the locals of PoolManager::connect.
StartConnect(t, ctx) ==
    [t EXCEPT !.pc = "c_mark", !.ctx = ctx, !.cfg = NoCfg, !.cret = "none",
              !.drv = 0, !.tun = FALSE, !.tres = "-"]

\* A get_connection that returns the handle of any cached entry, whatever
\* its status.
GetConnectionCached(p, id) ==
    LET t == [task[p] EXCEPT !.op = "get_connection", !.uuid = id] IN
    /\ task[p].pc = "idle"
    /\ Set(p, IF id \in DOMAIN pools
              THEN Return(t, Ret("Ok", "-", TRUE, NoError, pools[id].driver))
              ELSE [StartConnect(t, "get_connection")
                      EXCEPT !.seen_absent = id \notin DOMAIN pools])
    /\ UNCHANGED <<pools, drivers, tunnels, lock>>

\* get_connection, lines 176-187: the fast path returns the handle of a
\* Connected entry; otherwise connect is called.
GetConnection(p, id) ==
    LET t == [task[p] EXCEPT !.op = "get_connection", !.uuid = id] IN
    /\ task[p].pc = "idle"
    /\ Set(p, IF id \in DOMAIN pools /\ pools[id].status = Connected
              THEN Return(t, Ret("Ok", "-", TRUE, NoError, pools[id].driver))
              ELSE [StartConnect(t, "get_connection")
                      EXCEPT !.seen_absent = id \notin DOMAIN pools])
    /\ UNCHANGED <<pools, drivers, tunnels, lock>>

\* A disconnect that parks the entry as Disconnected instead of removing it.
disconnect_parked(P, id) ==
    IF id \in DOMAIN P THEN [P EXCEPT ![id].status = Disconnected] ELSE P

\* A disconnect that leaves a Disconnected entry behind for an identifier it
\* does not find.
disconnect_tombstone(P, id) ==
    IF id \in DOMAIN P THEN Remove(P, id)
    ELSE Insert(P, id, PoolEntry(0, NoCfg, Disconnected, ErrNotFound, 0))

\* disconnect, lines 244-247: the entry is removed and dropped.
disconnect(P, id) == Remove(P, id)

\* A mark_disconnected that marks every entry of the pool.
mark_disconnected_all(P, id, e) ==
    [k \in DOMAIN P |-> [P[k] EXCEPT !.status = Disconnected, !.last_error = e]]

\* mark_disconnected, lines 273-279.
mark_disconnected(P, id, e) ==
    IF id \in DOMAIN P
    THEN [P EXCEPT ![id].status = Disconnected, ![id].last_error = e]
    ELSE P

MarkDisconnected(p, id, e) ==
    LET t == [task[p] EXCEPT !.op = "mark_disconnected", !.uuid = id] IN
    /\ task[p].pc = "idle"
    /\ pools' = mark_disconnected(pools, id, e)
    /\ Set(p, Return(t, RetOk))
    /\ UNCHANGED <<drivers, tunnels, lock>>

\* A touch that also sets the entry back to Connected.
touch_reviving(P, id) ==
    IF id \in DOMAIN P
    THEN [P EXCEPT ![id].last_used = "touch", ![id].status = Connected]
    ELSE P

\* touch, lines 265-270.
touch(P, id) ==
    IF id \in DOMAIN P THEN [P EXCEPT ![id].last_used = "touch"] ELSE P

Touch(p, id) ==
    LET t == [task[p] EXCEPT !.op = "touch", !.uuid = id] IN
    /\ task[p].pc = "idle"
    /\ pools' = touch(pools, id)
    /\ Set(p, Return(t, RetOk))
    /\ UNCHANGED <<drivers, tunnels, lock>>

\* health_check, lines 283-286 and 311-314: the cached driver is captured,
\* or the synthetic failure is returned.
HealthRead(p, id) ==
    LET t == [task[p] EXCEPT !.op = "health_check", !.uuid = id] IN
    /\ task[p].pc = "idle"
    /\ Set(p, IF id \in DOMAIN pools
              THEN [t EXCEPT !.pc = "h_test", !.drv = pools[id].driver]
              ELSE Return(t, Ret("Ok", "-", FALSE, ErrNotFound, 0)))
    /\ UNCHANGED <<pools, drivers, tunnels, lock>>

\* health_check, line 290: driver.test_connection().await?
HealthTest(p) ==
    LET t == task[p]
        d == t.drv
    IN
    /\ t.pc = "h_test"
    /\ \E r \in TestOutcomes(d) :
         /\ Set(p, IF r = "fault" THEN Return(t, RetErr(ErrTestFault))
                   ELSE [t EXCEPT !.pc = "h_write", !.tres = r])
         /\ UNCHANGED <<pools, tunnels, lock>>
         /\ Collect(Tested(d, r))

\* A health check that creates the entry it does not find.
health_upsert(P, id, ok) ==
    IF id \in DOMAIN P
    THEN [P EXCEPT ![id].status = IF ok THEN Connected ELSE Disconnected,
                   ![id].last_error = IF ok THEN NoError ELSE MsgTestFailed]
    ELSE Insert(P, id, PoolEntry(0, NoCfg,
                                 IF ok THEN Connected ELSE Disconnected,
                                 IF ok THEN NoError ELSE MsgTestFailed, 0))

\* A health check that sets the status and leaves the last error as it is.
health_update_sticky(P, id, ok) ==
    IF id \in DOMAIN P
    THEN [P EXCEPT ![id].status = IF ok THEN Connected ELSE Disconnected]
    ELSE P

\* health_check, lines 293-307: status and last_error of the entry that is
\* in the map now are set from the result.
health_update(P, id, ok) ==
    IF id \in DOMAIN P
    THEN [P EXCEPT ![id].status = IF ok THEN Connected ELSE Disconnected,
                   ![id].last_error = IF ok THEN NoError ELSE MsgTestFailed]
    ELSE P

\* health_check, lines 293-309: the entry is updated and the result returned.
HealthWrite(p) ==
    LET t == task[p]
        ok == t.tres = "ok"
    IN
    /\ t.pc = "h_write"
    /\ pools' = health_update(pools, t.uuid, ok)
    /\ Set(p, Return(t, Ret("Ok", "-", ok, IF ok THEN NoError ELSE MsgTestFailed, 0)))
    /\ UNCHANGED <<tunnels, lock>>
    /\ Collect(drivers)

\* ------------------------------------------------------ commands of pool.rs

\* pool_connect, lines 26-64: the record is read and turned into a config,
\* or the command fails.
PoolConnect(p, id) ==
    LET t == [task[p] EXCEPT !.op = "pool_connect", !.uuid = id] IN
    /\ task[p].pc = "idle"
    /\ \/ Set(p, Return(t, RetErr(ErrNoRecord)))
       \/ Set(p, StartConnect(t, "pool_connect"))
    /\ UNCHANGED <<pools, drivers, tunnels, lock>>

\* pool_disconnect, lines 80-86.
PoolDisconnect(p, id) ==
    LET t == [task[p] EXCEPT !.op = "pool_disconnect", !.uuid = id] IN
    /\ task[p].pc = "idle"
    /\ pools' = disconnect(pools, id)
    /\ tunnels' = tunnels \ OwnedTunnel(pools, id)
    /\ Set(p, Return(t, RetOk))
    /\ UNCHANGED lock
    /\ Collect(drivers)

\* pool_get_status, line 94: get_status; the command goes on to read the
\* error.
PoolGetStatus(p, id) ==
    LET t == [task[p] EXCEPT !.op = "pool_get_status", !.uuid = id] IN
    /\ task[p].pc = "idle"
    /\ Set(p, [t EXCEPT !.pc = "s_error",
                        !.ret = Ret("none", get_status(pools, id), FALSE, NoError, 0)])
    /\ UNCHANGED <<pools, drivers, tunnels, lock>>

\* pool_get_status, lines 95-96: get_last_error, and the response of both.
PoolGetStatusError(p) ==
    LET t == task[p] IN
    /\ t.pc = "s_error"
    /\ Set(p, Return(t, Ret("Ok", t.ret.status, TRUE,
                            get_last_error(pools, t.uuid), 0)))
    /\ UNCHANGED <<pools, drivers, tunnels, lock>>

\* get_cached, lines 319-322, called on its own: the handle or None.
GetCached(p, id) ==
    LET t == [task[p] EXCEPT !.op = "get_cached", !.uuid = id] IN
    /\ task[p].pc = "idle"
    /\ Set(p, Return(t, Ret("Ok", "-", TRUE, NoError, get_cached(pools, id))))
    /\ UNCHANGED <<pools, drivers, tunnels, lock>>

\* A pooled data operation is called (pool_list_tables and its siblings run
\* the same steps around a different driver call).
PoolListTables(p, id) ==
    /\ task[p].pc = "idle"
    /\ Set(p, [task[p] EXCEPT !.op = "pool_list_tables", !.uuid = id,
                              !.pc = "e_lock"])
    /\ UNCHANGED <<pools, drivers, tunnels, lock>>

\* An ensure_connection that does not wait for the connect lock.
EnsureLockBarging(p) ==
    LET t == task[p] IN
    /\ t.pc = "e_lock"
    /\ Acquire(p, t.uuid)
    /\ Set(p, [t EXCEPT !.pc = "e_check", !.req = NoReq])
    /\ UNCHANGED <<pools, drivers, tunnels>>

\* ensure_connection, lines 161-162.
EnsureLock(p) ==
    LET t == task[p] IN
    /\ t.pc = "e_lock"
    /\ LockFree(t.uuid)
    /\ Acquire(p, t.uuid)
    /\ Set(p, [t EXCEPT !.pc = "e_check", !.req = NoReq])
    /\ UNCHANGED <<pools, drivers, tunnels>>

\* An ensure_connection that connects whether or not a driver is cached.
EnsureCheckBlind(p) ==
    LET t == task[p] IN
    /\ t.pc = "e_check"
    /\ \/ /\ Set(p, Return(t, RetErr(ErrNoRecord)))
          /\ Release(t.uuid)
       \/ /\ Set(p, StartConnect(t, "ensure"))
          /\ UNCHANGED lock
    /\ UNCHANGED <<pools, drivers, tunnels>>

\* ensure_connection, lines 165-169: a cached driver ends the step; otherwise
\* the config is fetched (or the step fails) and connect is called.
EnsureCheck(p) ==
    LET t == task[p] IN
    /\ t.pc = "e_check"
    /\ IF get_cached(pools, t.uuid) # 0
       THEN /\ Set(p, [t EXCEPT !.pc = "a_get"])
            /\ Release(t.uuid)
       ELSE \/ /\ Set(p, Return(t, RetErr(ErrNoRecord)))
               /\ Release(t.uuid)
            \/ /\ Set(p, StartConnect(t, "ensure"))
               /\ UNCHANGED lock
    /\ UNCHANGED <<pools, drivers, tunnels>>

\* A retry policy that reports the error of the first attempt when the retry
\* fails.
AfterAttemptFirstError(t, r) ==
    LET n == t.attempts + 1
        o == IF r = "ok" THEN "ok" ELSE "err"
        u == [t EXCEPT !.attempts = n, !.drv = 0, !.cret = "none",
                       !.first = IF n = 1 THEN o ELSE @,
                       !.second = IF n = 2 THEN o ELSE @,
                       !.err1 = IF n = 1 /\ r # "ok" THEN r ELSE @,
                       !.err2 = IF n = 2 /\ r # "ok" THEN r ELSE @]
    IN
    IF r = "ok" THEN Return(u, RetOk)
    ELSE IF n = 1 THEN [u EXCEPT !.pc = "r_lock", !.reconnects = @ + 1]
    ELSE Return(u, RetErr(t.err1))

\* A retry policy that reconnects after every failed attempt.
AfterAttemptAgain(t, r) ==
    LET n == t.attempts + 1
        o == IF r = "ok" THEN "ok" ELSE "err"
        u == [t EXCEPT !.attempts = n, !.drv = 0, !.cret = "none",
                       !.first = IF n = 1 THEN o ELSE @,
                       !.second = IF n = 2 THEN o ELSE @,
                       !.err1 = IF n = 1 /\ r # "ok" THEN r ELSE @,
                       !.err2 = IF n = 2 /\ r # "ok" THEN r ELSE @]
    IN
    IF r = "ok" THEN Return(u, RetOk)
    ELSE [u EXCEPT !.pc = "r_lock", !.reconnects = @ + 1]

\* pool_list_tables, lines 203-214: the match on the attempt's result r.  The
\* first failure calls reconnect; the retry's result is returned as it is.
AfterAttempt(t, r) ==
    LET n == t.attempts + 1
        o == IF r = "ok" THEN "ok" ELSE "err"
        u == [t EXCEPT !.attempts = n, !.drv = 0, !.cret = "none",
                       !.first = IF n = 1 THEN o ELSE @,
                       !.second = IF n = 2 THEN o ELSE @,
                       !.err1 = IF n = 1 /\ r # "ok" THEN r ELSE @,
                       !.err2 = IF n = 2 /\ r # "ok" THEN r ELSE @]
    IN
    IF r = "ok" THEN Return(u, RetOk)
    ELSE IF n = 1 THEN [u EXCEPT !.pc = "r_lock", !.reconnects = @ + 1]
    ELSE Return(u, RetErr(r))

\* The data operation of the pool manager (PoolManager::list_tables and its
\* siblings): the cached driver is looked up; without one the attempt fails.
AttemptGet(p) ==
    LET t == task[p] IN
    /\ t.pc = "a_get"
    /\ Set(p, IF get_cached(pools, t.uuid) # 0
              THEN [t EXCEPT !.pc = "a_run", !.drv = get_cached(pools, t.uuid)]
              ELSE AfterAttempt(t, ErrNotFound))
    /\ UNCHANGED <<pools, drivers, tunnels, lock>>

\* What a data operation on driver d can answer.
OpOutcomes(d) ==
    IF drivers[d].via /\ d \notin tunnels THEN {ErrDriverOp} ELSE {"ok", ErrDriverOp}

\* A data operation that hands the driver's error on without marking the
\* entry.
AttemptRunUnmarked(p) ==
    LET t == task[p] IN
    /\ t.pc = "a_run"
    /\ \E r \in OpOutcomes(t.drv) : Set(p, AfterAttempt(t, r))
    /\ UNCHANGED <<pools, tunnels, lock>>
    /\ Collect(drivers)

\* The driver call of the attempt returns; a failure marks the entry
\* Disconnected with the driver's error before it is handed to the command.
AttemptRun(p) ==
    LET t == task[p] IN
    /\ t.pc = "a_run"
    /\ \E r \in OpOutcomes(t.drv) :
         /\ pools' = IF r = "ok" THEN pools ELSE mark_disconnected(pools, t.uuid, r)
         /\ Set(p, AfterAttempt(t, r))
    /\ UNCHANGED <<tunnels, lock>>
    /\ Collect(drivers)

\* reconnect, lines 180-181.
ReconnectLock(p) ==
    LET t == task[p] IN
    /\ t.pc = "r_lock"
    /\ LockFree(t.uuid)
    /\ Acquire(p, t.uuid)
    /\ Set(p, [t EXCEPT !.pc = "r_disc"])
    /\ UNCHANGED <<pools, drivers, tunnels>>

\* reconnect, lines 184-187: the stale entry is removed, then the config is
\* fetched (or reconnect fails) and connect is called.
ReconnectDisconnect(p) ==
    LET t == task[p] IN
    /\ t.pc = "r_disc"
    /\ pools' = disconnect(pools, t.uuid)
    /\ tunnels' = tunnels \ OwnedTunnel(pools, t.uuid)
    /\ \/ /\ Set(p, Return(t, RetErr(ErrNoRecord)))
          /\ Release(t.uuid)
       \/ /\ Set(p, StartConnect(t, "reconnect"))
          /\ UNCHANGED lock
    /\ Collect(drivers)

\* The caller takes the result; the task is free for the next command.
Finish(p) ==
    /\ task[p].pc = "done"
    /\ Set(p, IdleTask)
    /\ UNCHANGED <<pools, drivers, tunnels, lock>>

\* ------------------------------------------------- row mutations of pool.rs

\* The loop over updates / values, pool.rs 375-404 and 542-566: each item
\* must have the expected shape, and a fragment flagged isRawSql must pass
\* validate_raw_sql_value.
items_check(q) ==
    IF q.frag = "malformed" THEN ErrItemShape
    ELSE IF q.frag = "raw_rejected" THEN ErrRawSql
    ELSE "ok"

\* The connection record is read for its db_type.
record_check(q) == IF q.record THEN "ok" ELSE ErrNoRecord

\* An update that checks only that a primary key is given.
update_validate_lax(q) ==
    IF q.pk_cols = 0 THEN ErrPkMismatch
    ELSE IF q.items = 0 THEN ErrNoUpdates
    ELSE IF record_check(q) # "ok" THEN record_check(q)
    ELSE items_check(q)

\* pool_update_table_row, lines 343-422: what is checked before
\* ensure_connection is called.
update_validate(q) ==
    IF q.pk_cols = 0 \/ q.pk_cols # q.pk_vals THEN ErrPkMismatch
    ELSE IF q.items = 0 THEN ErrNoUpdates
    ELSE IF record_check(q) # "ok" THEN record_check(q)
    ELSE items_check(q)

\* pool_delete_table_row, lines 450-487.
delete_validate(q) ==
    IF q.pk_cols = 0 \/ q.pk_cols # q.pk_vals THEN ErrPkMismatch
    ELSE record_check(q)

\* pool_insert_table_row, lines 513-578.
insert_validate(q) ==
    IF q.items = 0 THEN ErrNoValues
    ELSE IF record_check(q) # "ok" THEN record_check(q)
    ELSE items_check(q)

\* A row mutation is called with arguments q: a failed check returns its
\* error; otherwise the statement is built and the command goes on as every
\* pooled data operation does, with ensure_connection (from where on the
\* arguments play no part).
RowMutation(p, id, op, q, v) ==
    LET t == [task[p] EXCEPT !.op = op, !.uuid = id, !.req = q] IN
    /\ task[p].pc = "idle"
    /\ Set(p, IF v # "ok" THEN Return(t, RetErr(v)) ELSE [t EXCEPT !.pc = "e_lock"])
    /\ UNCHANGED <<pools, drivers, tunnels, lock>>

\* pool_update_table_row, lines 333-424.
PoolUpdateTableRow(p, id) ==
    \E q \in Reqs : RowMutation(p, id, "pool_update_table_row", q, update_validate(q))

\* pool_delete_table_row, lines 441-488; it has no items.
PoolDeleteTableRow(p, id) ==
    \E q \in Reqs :
        /\ q.items = 0 /\ q.frag = "plain"
        /\ RowMutation(p, id, "pool_delete_table_row", q, delete_validate(q))

\* pool_insert_table_row, lines 505-579; it has no primary key.
PoolInsertTableRow(p, id) ==
    \E q \in Reqs :
        /\ q.pk_cols = 0 /\ q.pk_vals = 0
        /\ RowMutation(p, id, "pool_insert_table_row", q, insert_validate(q))

\* ----------------------------------- statement text of the row mutations

\* Statement text is a sequence of pieces: the characters of names and
\* values one by one, and each literal part of a format string ("UPDATE ",
\* " SET ", " = ", ", ", ...) as one piece.
DQ == "\""

SQ == "'"

\* The sequences over S of length at most n.
Seqs(S, n) == UNION {[1..k -> S] : k \in 0..n}

\* A serde_json::Value: null, a number or a string, with its text.
Value(kind, text) == [kind |-> kind, text |-> text]

\* The names and values the row mutations are called with: names with and
\* without a double quote, strings with an apostrophe and with a semicolon.
Schemas == {<<"s">>, <<"s", DQ>>}

Tables == {<<"t">>, <<DQ>>, <<"t", DQ, "x">>}

Columns == {<<"c">>, <<DQ, "c">>}

PkValues ==
    {Value("null", << >>), Value("number", <<"1">>), Value("string", <<"O", SQ, "B">>)}

ItemValues == PkValues \cup {Value("string", <<"N">>), Value("string", <<"N", ";">>)}

\* An element of updates / values: an object with column, value and
\* isRawSql, or something else.
Item(shape, column, value, raw) ==
    [shape |-> shape, column |-> column, value |-> value, isRawSql |-> raw]

Items ==
    {Item("object", c, v, r) : c \in Columns, v \in ItemValues, r \in BOOLEAN}
        \cup {Item("other", << >>, Value("null", << >>), FALSE)}

\* The arguments of a row mutation; db is the db_type of the connection
\* record, "-" when the record cannot be read.
Args(db, schema, table, pc, pv, items) ==
    [db |-> db, schema |-> schema, table |-> table, pk_cols |-> pc,
     pk_vals |-> pv, items |-> items]

DbTypes == {"postgres", "sqlite", "-"}

\* escape_sql_identifier: a double quote inside the name is doubled.
RECURSIVE escape_sql_identifier(_)
escape_sql_identifier(name) ==
    IF name = << >> THEN << >>
    ELSE (IF Head(name) = DQ THEN <<DQ, DQ>> ELSE <<Head(name)>>)
             \o escape_sql_identifier(Tail(name))

\* The text of a string literal: an apostrophe inside it is doubled.
RECURSIVE escape_sql_string(_)
escape_sql_string(text) ==
    IF text = << >> THEN << >>
    ELSE (IF Head(text) = SQ THEN <<SQ, SQ>> ELSE <<Head(text)>>)
             \o escape_sql_string(Tail(text))

\* format_sql_value: the typed formatter.
format_sql_value(v) ==
    CASE v.kind = "null" -> <<"NULL">>
      [] v.kind = "string" -> <<SQ>> \o escape_sql_string(v.text) \o <<SQ>>
      [] OTHER -> v.text

\* validate_raw_sql_value: a fragment with a statement terminator is
\* rejected.
validate_raw_sql_value(raw, db_type) ==
    IF \E i \in DOMAIN raw : raw[i] = ";" THEN "rejected" ELSE "ok"

\* format!("\"{}\"", escape_sql_identifier(name)).
quoted(name) == <<DQ>> \o escape_sql_identifier(name) \o <<DQ>>

\* A table reference that puts the names between the quotes as they are.
table_ref_bare(db, schema, table) ==
    IF db \in {"sqlite", "sqlite3"} THEN <<DQ>> \o table \o <<DQ>>
    ELSE <<DQ>> \o schema \o <<DQ, ".", DQ>> \o table \o <<DQ>>

\* Lines 362-370 (466-473, 528-536): the table reference.
table_ref(db, schema, table) ==
    IF db \in {"sqlite", "sqlite3"} THEN quoted(table)
    ELSE quoted(schema) \o <<".">> \o quoted(table)

\* Vec<String>::join.
RECURSIVE join(_, _)
join(parts, sep) ==
    IF parts = << >> THEN << >>
    ELSE IF Len(parts) = 1 THEN parts[1]
    ELSE parts[1] \o <<sep>> \o join(Tail(parts), sep)

\* A value that is spliced in as it is whenever it is flagged isRawSql.
formatted_value_trusting(item, db) ==
    IF item.isRawSql
    THEN IF item.value.kind # "string" THEN [err |-> ErrRawString, text |-> << >>]
         ELSE [err |-> "ok", text |-> item.value.text]
    ELSE [err |-> "ok", text |-> format_sql_value(item.value)]

\* Lines 390-397 (559-566): the text of an item's value.
formatted_value(item, db) ==
    IF item.isRawSql
    THEN IF item.value.kind # "string" THEN [err |-> ErrRawString, text |-> << >>]
         ELSE IF validate_raw_sql_value(item.value.text, db) # "ok"
         THEN [err |-> ErrRawSql, text |-> << >>]
         ELSE [err |-> "ok", text |-> item.value.text]
    ELSE [err |-> "ok", text |-> format_sql_value(item.value)]

\* Lines 373-404: the loop over updates; the first error ends it.
RECURSIVE set_parts(_, _)
set_parts(items, db) ==
    IF items = << >> THEN [err |-> "ok", parts |-> << >>]
    ELSE LET it == Head(items) IN
         IF it.shape # "object" THEN [err |-> ErrItemShape, parts |-> << >>]
         ELSE LET fv == formatted_value(it, db) IN
              IF fv.err # "ok" THEN [err |-> fv.err, parts |-> << >>]
              ELSE LET rest == set_parts(Tail(items), db) IN
                   IF rest.err # "ok" THEN rest
                   ELSE [err |-> "ok",
                         parts |-> <<quoted(it.column) \o <<" = ">> \o fv.text>>
                                       \o rest.parts]

\* Lines 539-569: the loop over values, which collects the column names and
\* the value texts.
RECURSIVE value_parts(_, _)
value_parts(items, db) ==
    IF items = << >> THEN [err |-> "ok", columns |-> << >>, values |-> << >>]
    ELSE LET it == Head(items) IN
         IF it.shape # "object"
         THEN [err |-> ErrItemShape, columns |-> << >>, values |-> << >>]
         ELSE LET fv == formatted_value(it, db) IN
              IF fv.err # "ok" THEN [err |-> fv.err, columns |-> << >>, values |-> << >>]
              ELSE LET rest == value_parts(Tail(items), db) IN
                   IF rest.err # "ok" THEN rest
                   ELSE [err |-> "ok",
                         columns |-> <<quoted(it.column)>> \o rest.columns,
                         values |-> <<fv.text>> \o rest.values]

\* A WHERE clause over the first primary-key column only.
where_parts_first(cols, vals) ==
    [i \in 1..1 |-> quoted(cols[i]) \o <<" = ">> \o format_sql_value(vals[i])]

\* Lines 409-416 (476-483): one predicate per pair of the zip of columns
\* and values.
where_parts(cols, vals) ==
    [i \in 1..(IF Len(cols) <= Len(vals) THEN Len(cols) ELSE Len(vals)) |->
        quoted(cols[i]) \o <<" = ">> \o format_sql_value(vals[i])]

\* What the statement builder gives: an error, or "ok" and the text.
Stmt(err, sql) == [err |-> err, sql |-> sql]

\* pool_update_table_row, lines 343-422.
update_query(a) ==
    IF a.pk_cols = << >> \/ Len(a.pk_cols) # Len(a.pk_vals)
    THEN Stmt(ErrPkMismatch, << >>)
    ELSE IF a.items = << >> THEN Stmt(ErrNoUpdates, << >>)
    ELSE IF a.db = "-" THEN Stmt(ErrNoRecord, << >>)
    ELSE LET sp == set_parts(a.items, a.db) IN
         IF sp.err # "ok" THEN Stmt(sp.err, << >>)
         ELSE Stmt("ok", <<"UPDATE ">> \o table_ref(a.db, a.schema, a.table)
                             \o <<" SET ">> \o join(sp.parts, ", ")
                             \o <<" WHERE ">>
                             \o join(where_parts(a.pk_cols, a.pk_vals), " AND "))

\* pool_delete_table_row, lines 450-486.
delete_query(a) ==
    IF a.pk_cols = << >> \/ Len(a.pk_cols) # Len(a.pk_vals)
    THEN Stmt(ErrPkMismatch, << >>)
    ELSE IF a.db = "-" THEN Stmt(ErrNoRecord, << >>)
    ELSE Stmt("ok", <<"DELETE FROM ">> \o table_ref(a.db, a.schema, a.table)
                        \o <<" WHERE ">>
                        \o join(where_parts(a.pk_cols, a.pk_vals), " AND "))

\* pool_insert_table_row, lines 513-577.
insert_query(a) ==
    IF a.items = << >> THEN Stmt(ErrNoValues, << >>)
    ELSE IF a.db = "-" THEN Stmt(ErrNoRecord, << >>)
    ELSE LET vp == value_parts(a.items, a.db) IN
         IF vp.err # "ok" THEN Stmt(vp.err, << >>)
         ELSE Stmt("ok", <<"INSERT INTO ">> \o table_ref(a.db, a.schema, a.table)
                             \o <<" (">> \o join(vp.columns, ", ")
                             \o <<") VALUES (">> \o join(vp.values, ", ")
                             \o <<")">>)

\* A caller that has had its statement built: the command, its arguments,
\* and the error or the text.
Built(op, a, r) == [pc |-> "built", op |-> op, args |-> a, err |-> r.err, sql |-> r.sql]

\* pool_update_table_row up to line 422.
UpdateStatement(p) ==
    /\ task[p].pc = "idle"
    /\ \E db \in DbTypes, schema \in Schemas, table \in Tables,
          pc \in Seqs(Columns, MaxPk), pv \in Seqs(PkValues, MaxPk),
          items \in Seqs(Items, MaxItems) :
         LET a == Args(db, schema, table, pc, pv, items) IN
         Set(p, Built("pool_update_table_row", a, update_query(a)))
    /\ UNCHANGED <<pools, drivers, tunnels, lock>>

\* pool_delete_table_row up to line 486.
DeleteStatement(p) ==
    /\ task[p].pc = "idle"
    /\ \E db \in DbTypes, schema \in Schemas, table \in Tables,
          pc \in Seqs(Columns, MaxPk), pv \in Seqs(PkValues, MaxPk) :
         LET a == Args(db, schema, table, pc, pv, << >>) IN
         Set(p, Built("pool_delete_table_row", a, delete_query(a)))
    /\ UNCHANGED <<pools, drivers, tunnels, lock>>

\* pool_insert_table_row up to line 577.
InsertStatement(p) ==
    /\ task[p].pc = "idle"
    /\ \E db \in DbTypes, schema \in Schemas, table \in Tables,
          items \in Seqs(Items, MaxItems) :
         LET a == Args(db, schema, table, << >>, << >>, items) IN
         Set(p, Built("pool_insert_table_row", a, insert_query(a)))
    /\ UNCHANGED <<pools, drivers, tunnels, lock>>

\* ------------------------------------------------- create_driver on its own

\* create_driver is called with the config the caller holds; what it
\* returns and whether it opened a tunnel are recorded.
FactoryCall(p) ==
    LET t == task[p] IN
    /\ t.pc = "f_call"
    /\ \E tunnel_ok \in BOOLEAN :
         LET r == create_driver(t.cfg, tunnel_ok) IN
         Set(p, [t EXCEPT !.pc = "f_done", !.cret = r.res, !.tun = r.tun])
    /\ UNCHANGED <<pools, drivers, tunnels, lock>>

\* ----------------------------------------------- get_connect_lock on its own

\* The lock registry: in the specification of get_connect_lock the variable
\* lock is the registry itself, a map from the identifiers that have a
\* connect lock to the lock (a number tells the locks apart), and the
\* returned lock is the handle of the result.

\* get_connect_lock, first check: under the read guard of the registry the
\* lock of a known identifier is returned; an unknown one goes on to the
\* insert.  The callers are ensure_connection and reconnect.
LockLookup(p, id) ==
    /\ task[p].pc = "idle"
    /\ \E op \in {"ensure_connection", "reconnect"} :
         LET t == [task[p] EXCEPT !.op = op, !.uuid = id] IN
         Set(p, IF id \in DOMAIN lock
                THEN Return(t, Ret("Ok", "-", TRUE, NoError, lock[id]))
                ELSE [t EXCEPT !.pc = "l_insert"])
    /\ UNCHANGED <<pools, drivers, tunnels, lock>>

\* An insert without the second check: a new lock is stored whatever the
\* registry holds by now.
LockInsertUnchecked(p) ==
    LET t == task[p]
        used == {lock[k] : k \in DOMAIN lock} \cup {task[q].ret.handle : q \in Tasks}
        new == CHOOSE n \in Handles \ used : \A m \in Handles \ used : n <= m
    IN
    /\ t.pc = "l_insert"
    /\ lock' = (t.uuid :> new) @@ lock
    /\ Set(p, Return(t, Ret("Ok", "-", TRUE, NoError, new)))
    /\ UNCHANGED <<pools, drivers, tunnels>>

\* get_connect_lock, second check and insert: under the write guard of the
\* registry a lock is created only if the identifier still has none, and
\* the lock the registry holds is returned.
LockInsert(p) ==
    LET t == task[p]
        used == {lock[k] : k \in DOMAIN lock} \cup {task[q].ret.handle : q \in Tasks}
        new == CHOOSE n \in Handles \ used : \A m \in Handles \ used : n <= m
    IN
    /\ t.pc = "l_insert"
    /\ lock' = IF t.uuid \in DOMAIN lock THEN lock ELSE (t.uuid :> new) @@ lock
    /\ Set(p, Return(t, Ret("Ok", "-", TRUE, NoError, lock'[t.uuid])))
    /\ UNCHANGED <<pools, drivers, tunnels>>

\* ----------------------------------------------------------- specification

Next ==
    \E p \in Tasks :
        \/ \E id \in IDs : \/ PoolConnect(p, id)
                           \/ PoolDisconnect(p, id)
                           \/ HealthRead(p, id)
                           \/ PoolListTables(p, id)
                           \/ GetConnection(p, id)
                           \/ \E e \in {NoError, MsgMarked} : MarkDisconnected(p, id, e)
        \/ ConnectMark(p) \/ ConnectCreate(p)
        \/ ConnectTest(p) \/ ConnectInsert(p)
        \/ HealthTest(p) \/ HealthWrite(p)
        \/ EnsureLock(p) \/ EnsureCheck(p)
        \/ AttemptGet(p) \/ AttemptRun(p)
        \/ ReconnectLock(p) \/ ReconnectDisconnect(p)
        \/ Finish(p)

Spec == Init /\ [][Next]_vars

\* The steps inside ensure_connection, connect, the attempts and reconnect.
Inner(p) ==
    \/ ConnectMark(p) \/ ConnectCreate(p)
    \/ ConnectTest(p) \/ ConnectInsert(p)
    \/ EnsureLock(p) \/ EnsureCheck(p)
    \/ AttemptGet(p) \/ AttemptRun(p)
    \/ ReconnectLock(p) \/ ReconnectDisconnect(p)
    \/ Finish(p)

\* The row mutations: caller 1 runs them while the other callers run
\* pool_list_tables and pool_disconnect on the same identifiers.
NextRows ==
    \/ \E id \in IDs : \/ PoolUpdateTableRow(1, id)
                       \/ PoolDeleteTableRow(1, id)
                       \/ PoolInsertTableRow(1, id)
    \/ \E p \in Tasks \ {1}, id \in IDs : \/ PoolListTables(p, id)
                                           \/ PoolDisconnect(p, id)
    \/ \E p \in Tasks : Inner(p)

SpecRows == Init /\ [][NextRows]_vars

\* Two identifiers: caller 1 works on "A" with every operation of the pool,
\* the other callers run pool_list_tables and pool_disconnect on "B".
InitPair ==
    /\ pools = << >>
    /\ drivers = << >>
    /\ tunnels = {}
    /\ lock = [i \in PairIDs |-> 0]
    /\ task = [p \in Tasks |-> IdleTask]

NextPair ==
    \/ PoolConnect(1, "A") \/ PoolDisconnect(1, "A")
    \/ HealthRead(1, "A") \/ PoolListTables(1, "A")
    \/ Touch(1, "A")
    \/ \E e \in {NoError, MsgMarked} : MarkDisconnected(1, "A", e)
    \/ HealthTest(1) \/ HealthWrite(1)
    \/ \E p \in Tasks \ {1} : PoolListTables(p, "B") \/ PoolDisconnect(p, "B")
    \/ \E p \in Tasks : Inner(p)

SpecPair == InitPair /\ [][NextPair]_vars

\* The reads: caller 1 reads status, last error and cached driver while the
\* other callers connect, disconnect and mark the same identifiers.
NextReads ==
    \/ \E id \in IDs : PoolGetStatus(1, id) \/ GetCached(1, id)
    \/ PoolGetStatusError(1)
    \/ \E p \in Tasks \ {1}, id \in IDs : \/ PoolConnect(p, id)
                                           \/ PoolDisconnect(p, id)
                                           \/ MarkDisconnected(p, id, MsgMarked)
    \/ \E p \in Tasks : \/ ConnectMark(p) \/ ConnectCreate(p)
                         \/ ConnectTest(p) \/ ConnectInsert(p)
                         \/ Finish(p)

SpecReads == Init /\ [][NextReads]_vars

\* The ensure-connected step on its own: every caller calls a data operation
\* once and runs its ensure_connection to the return (position a_get after
\* Ok, done after Err).
NextEnsure ==
    \E p \in Tasks :
        \/ \E id \in IDs : PoolListTables(p, id)
        \/ EnsureLock(p) \/ EnsureCheck(p)
        \/ ConnectMark(p) \/ ConnectCreate(p)
        \/ ConnectTest(p) \/ ConnectInsert(p)

SpecEnsure == Init /\ [][NextEnsure]_vars

\* The statement builders of the row mutations, applied by caller 1 to every
\* argument list.
NextSql == UpdateStatement(1) \/ DeleteStatement(1) \/ InsertStatement(1)

SpecSql == Init /\ [][NextSql]_vars

\* The steps of a data operation that wait for nobody: the reads and writes
\* of the pool and the awaited driver calls, tunnel setups and metadata reads.
Running(p) ==
    \/ EnsureCheck(p)
    \/ ConnectMark(p) \/ ConnectCreate(p)
    \/ ConnectTest(p) \/ ConnectInsert(p)
    \/ AttemptGet(p) \/ AttemptRun(p)
    \/ ReconnectDisconnect(p)

\* The data operations under a fair scheduler: every caller calls
\* pool_list_tables again and again.  A step that waits for nobody is taken
\* once it is due (each awaited call returns); the connect lock is a queued
\* mutex, so a caller for whom it becomes free again and again gets it.
NextLive ==
    \E p \in Tasks :
        \/ \E id \in IDs : PoolListTables(p, id)
        \/ Running(p)
        \/ EnsureLock(p) \/ ReconnectLock(p)
        \/ Finish(p)

SpecLive ==
    /\ Init /\ [][NextLive]_vars
    /\ \A p \in Tasks : /\ WF_vars(Running(p))
                        /\ SF_vars(EnsureLock(p) \/ ReconnectLock(p))

\* get_connect_lock called by every caller for two identifiers, starting
\* from the empty registry.
InitLocks ==
    /\ pools = << >>
    /\ drivers = << >>
    /\ tunnels = {}
    /\ lock = << >>
    /\ task = [p \in Tasks |-> IdleTask]

NextLocks ==
    \E p \in Tasks :
        \/ \E id \in PairIDs : LockLookup(p, id)
        \/ LockInsert(p)
        \/ Finish(p)

SpecLocks == InitLocks /\ [][NextLocks]_vars

\* create_driver applied to every config.
InitFactory ==
    /\ pools = << >>
    /\ drivers = << >>
    /\ tunnels = {}
    /\ lock = [i \in IDs |-> 0]
    /\ \E c \in AllConfigs :
         task = [p \in Tasks |->
                   IF p = 1
                   THEN [IdleTask EXCEPT !.pc = "f_call", !.op = "create_driver",
                                         !.cfg = c]
                   ELSE IdleTask]

NextFactory == \E p \in Tasks : FactoryCall(p)

SpecFactory == InitFactory /\ [][NextFactory]_vars

\* ------------------------------------------------------------- properties

\* The positions inside PoolManager::connect.
InConnect(t) == t.pc \in {"c_mark", "c_create", "c_test", "c_insert"}

\* This step is the one in which task p's call of connect returns; its
\* result is task'[p].cret.
ConnectReturned(p) == InConnect(task[p]) /\ ~InConnect(task'[p])

\* This step is one in which task p's disconnect(uuid) runs and returns.
DisconnectReturned(p) ==
    \/ task[p].pc = "idle" /\ task'[p].op = "pool_disconnect"
    \/ task[p].pc = "r_disc" /\ task'[p].pc # "r_disc"

\* C1: immediately after connect(id, cfg) returns success, get_status(id) is
\* Connected and get_cached(id) gives a driver handle; immediately after
\* disconnect(id) returns, get_status(id) is Disconnected and get_cached(id)
\* gives none.
C1_ConnectDisconnectPost ==
    [][\A p \in Tasks :
          /\ ConnectReturned(p) /\ task'[p].cret = "ok" =>
                /\ get_status(pools', task[p].uuid) = Connected
                /\ get_cached(pools', task[p].uuid) # 0
                /\ get_cached(pools', task[p].uuid) = task[p].drv
          /\ DisconnectReturned(p) =>
                /\ get_status(pools', task'[p].uuid) = Disconnected
                /\ get_cached(pools', task'[p].uuid) = 0]_vars

\* A pool_connect has returned Connected and the entry is cached, and the
\* other caller's pool_disconnect has returned before that (the entry it
\* removed has been replaced).
C1_Witness ==
    \E p, q \in Tasks :
        /\ task[p].pc = "done" /\ task[p].op = "pool_connect"
        /\ task[p].cret = "ok" /\ task[p].ret.status = Connected
        /\ get_status(pools, task[p].uuid) = Connected
        /\ get_cached(pools, task[p].uuid) # 0
        /\ task[q].pc = "done" /\ task[q].op = "pool_disconnect"

\* The data operations: the calls that run ensure-connected, attempt,
\* reconnect and retry.
DataOp(t) ==
    t.op \in {"pool_list_tables", "pool_update_table_row",
              "pool_delete_table_row", "pool_insert_table_row"}

\* C3: a data operation makes at most two attempts and at most one
\* reconnect; the first attempt's failure triggers exactly one reconnect and
\* (after it) exactly one retry, and a successful first attempt none.
C3_RetryBudget ==
    \A p \in Tasks :
        LET t == task[p] IN
        DataOp(t) =>
            /\ t.attempts <= 2
            /\ t.reconnects <= 1
            /\ t.reconnects = (IF t.first = "err" THEN 1 ELSE 0)
            /\ t.first = "ok" => t.attempts = 1 /\ t.pc = "done" /\ t.ret.tag = "Ok"
            /\ t.attempts = 2 => t.first = "err" /\ t.pc = "done"
            /\ t.attempts = 2 <=> t.second # "-"
            /\ t.pc = "done" /\ t.first = "err" /\ t.attempts = 1 =>
                  t.ret.tag = "Err" /\ t.cret # "ok"

\* A data operation has returned the result of its retry: the first attempt
\* failed, one reconnect succeeded, the second attempt succeeded.
C3_Witness ==
    \E p \in Tasks :
        /\ DataOp(task[p]) /\ task[p].pc = "done"
        /\ task[p].first = "err" /\ task[p].reconnects = 1
        /\ task[p].attempts = 2 /\ task[p].second = "ok"
        /\ task[p].ret.tag = "Ok"

\* The calls of get_connection(id, cfg) that found no entry for id and hold
\* a driver they have constructed for it.
FirstCreators(id) ==
    {p \in Tasks : /\ task[p].op = "get_connection" /\ task[p].uuid = id
                    /\ task[p].seen_absent
                    /\ task[p].pc \in {"c_test", "c_insert"}}

\* C2: concurrent get-or-create calls on an identifier with no entry
\* construct exactly one driver and open exactly one SSH tunnel between
\* them.
C2_OneDriverPerIdentifier ==
    \A id \in IDs :
        /\ Cardinality({task[p].drv : p \in FirstCreators(id)}) <= 1
        /\ Cardinality({task[p].drv : p \in FirstCreators(id)} \cap tunnels) <= 1

BadConfig(c) ==
    \/ c.db_type \in {"sqlite", "sqlite3"} /\ ~c.file_path
    \/ c.db_type \notin {"postgres", "postgresql", "sqlite", "sqlite3",
                          "redis", "clickhouse"}
    \/ c.ssh_enabled /\ (~c.ssh_host \/ ~c.ssh_user \/ ~c.host)

\* C6: a connect that fails with a configuration error on an identifier
\* with no entry returns the error and creates no entry, so the status of
\* the identifier stays Disconnected.
C6_ConfigErrorNoEntry ==
    [][/\ \A c \in Configs :
             BadConfig(c) => create_driver(c, TRUE).res \in ConfigErrors
       /\ \A p \in Tasks :
             (/\ ConnectReturned(p) /\ task'[p].cret \in ConfigErrors
              /\ task[p].uuid \notin DOMAIN pools) =>
                 /\ task[p].uuid \notin DOMAIN pools'
                 /\ get_status(pools', task[p].uuid) = Disconnected
                 /\ task'[p].pc = "done"
                 /\ task'[p].ret.msg = task'[p].cret
                 /\ task'[p].ret.tag = "Err" \/ task'[p].ret.status = Disconnected]_vars

\* Two connects on the identifier have returned configuration errors, one to
\* get_connection and one to pool_connect, and the pool has no entry.
C6_Witness ==
    \E p, q \in Tasks :
        /\ task[p].pc = "done" /\ task[p].op = "get_connection"
        /\ task[p].cret = ErrFilePath /\ task[p].ret = RetErr(ErrFilePath)
        /\ task[q].pc = "done" /\ task[q].op = "pool_connect"
        /\ task[q].cret = ErrUnsupported
        /\ task[q].uuid = task[p].uuid
        /\ task[p].uuid \notin DOMAIN pools

\* This step is a step of task p's health_check.
HealthStep(p) ==
    /\ task'[p] # task[p]
    /\ \/ task[p].pc = "idle" /\ task'[p].op = "health_check"
       \/ task[p].pc \in {"h_test", "h_write"}

\* C7: health_check on an identifier without an entry returns Ok with the
\* unsuccessful result 'Connection not found' and leaves no entry;
\* health_check never inserts an entry, also when the entry was removed
\* while its test was in flight.
C7_HealthCheckNeverInserts ==
    [][\A p \in Tasks :
          HealthStep(p) =>
              /\ DOMAIN pools' = DOMAIN pools
              /\ task[p].pc = "idle" /\ task'[p].uuid \notin DOMAIN pools =>
                    /\ task'[p].pc = "done"
                    /\ task'[p].ret = Ret("Ok", "-", FALSE, ErrNotFound, 0)
                    /\ pools' = pools]_vars

\* One health_check has answered 'Connection not found', another has
\* returned the result of its test after the entry was removed under it, and
\* the identifier has no entry.
C7_Witness ==
    \E p, q \in Tasks :
        /\ task[p].pc = "done" /\ task[p].op = "health_check"
        /\ task[p].ret = Ret("Ok", "-", FALSE, ErrNotFound, 0)
        /\ task[q].pc = "done" /\ task[q].op = "health_check"
        /\ task[q].ret.tag = "Ok" /\ task[q].ret.msg # ErrNotFound
        /\ task[q].uuid = task[p].uuid
        /\ task[p].uuid \notin DOMAIN pools

\* Task p is inside the critical section of ensure_connection or reconnect:
\* between taking the identifier's connect lock and returning.
InCritical(p) ==
    \/ task[p].pc \in {"e_check", "r_disc"}
    \/ InConnect(task[p]) /\ task[p].ctx \in {"ensure", "reconnect"}

\* C8: at most one caller at a time is inside the ensure-connected /
\* reconnect critical section of an identifier.
C8_MutualExclusion ==
    \A id \in IDs :
        /\ Cardinality({p \in Tasks : task[p].uuid = id /\ InCritical(p)}) <= 1
        /\ \A p \in Tasks : task[p].uuid = id /\ InCritical(p) => lock[id] = p

\* One caller is testing the driver of its reconnect while the other waits
\* for the identifier's connect lock.
C8_Witness ==
    \E p, q \in Tasks :
        /\ InCritical(p) /\ task[p].pc = "c_test" /\ task[p].ctx = "reconnect"
        /\ task[q].pc \in {"e_lock", "r_lock"}
        /\ task[q].uuid = task[p].uuid

\* The callers of pool_connect or a data operation that hold a driver they
\* have constructed for id and not yet stored.
Constructing(id) ==
    {p \in Tasks : /\ task[p].op \in {"pool_connect", "pool_list_tables"}
                    /\ task[p].uuid = id
                    /\ task[p].pc \in {"c_test", "c_insert"}}

\* C9: across pool_connect and the data operations, at most one driver
\* construction is in progress per identifier at any time.
C9_OneConstructionPerIdentifier ==
    \A id \in IDs : Cardinality(Constructing(id)) <= 1

\* C10: an entry whose status is Connected holds a driver handle that was
\* verified live by a successful test_connection of its own.
C10_ConnectedIsVerified ==
    \A id \in DOMAIN pools :
        pools[id].status = Connected => drivers[pools[id].driver].verified

\* C11: an entry is in status Reconnecting only while a connect for its
\* identifier is in progress; once the connect calls for an identifier have
\* returned, its entry is not Reconnecting.
C11_ReconnectingOnlyDuringConnect ==
    \A id \in DOMAIN pools :
        pools[id].status = Reconnecting =>
            \E p \in Tasks : InConnect(task[p]) /\ task[p].uuid = id

\* C13: an operation in flight on a driver handle it captured can use it
\* until the call finishes: the driver is alive and, if it connects through
\* an SSH tunnel, that tunnel is open, whatever other callers do to the
\* entry meanwhile.
C13_HeldHandleUsable ==
    \A p \in Tasks :
        task[p].pc \in {"h_test", "a_run"} =>
            /\ task[p].drv \in DOMAIN drivers
            /\ drivers[task[p].drv].via => task[p].drv \in tunnels

\* The messages of connectivity failures: tunnel, network and driver errors.
ConnectivityErrors == {ErrTunnel, ErrTestFault, MsgTestFailed, ErrDriverOp}

\* C14: a data operation surfaces a connectivity failure, the failure of
\* the initial connect of ensure_connection included, only after exactly
\* one reconnect.
C14_ConnectivityRetriedOnce ==
    \A p \in Tasks :
        (/\ DataOp(task[p]) /\ task[p].pc = "done"
         /\ task[p].ret.tag = "Err" /\ task[p].ret.msg \in ConnectivityErrors) =>
            task[p].reconnects = 1

\* C20: a data operation on an identifier whose entry is Connected never
\* waits for that identifier's connect lock.
C20_ConnectedNeverWaits ==
    \A p \in Tasks :
        (/\ DataOp(task[p]) /\ task[p].pc = "e_lock"
         /\ get_status(pools, task[p].uuid) = Connected) =>
            LockFree(task[p].uuid)

\* The tunnel of driver d is owned by an entry of P or by a connect of T
\* that has built d and not yet stored or dropped it.
TunnelOwned(d, P, T) ==
    \/ \E id \in DOMAIN P : P[id].ssh_tunnel = d
    \/ \E p \in Tasks : T[p].drv = d /\ T[p].pc \in {"c_test", "c_insert"}

\* C12: every open SSH tunnel is owned by the current entry of its
\* identifier or by a connect in progress, and the tunnel of an entry is
\* open; the step that removes or replaces an entry closes the tunnel of the
\* old entry.
C12_NoDanglingTunnel ==
    [][/\ \A d \in tunnels' : TunnelOwned(d, pools', task')
       /\ \A id \in DOMAIN pools' :
             pools'[id].ssh_tunnel # 0 => pools'[id].ssh_tunnel \in tunnels'
       /\ \A id \in DOMAIN pools :
             (id \notin DOMAIN pools' \/ pools'[id].driver # pools[id].driver) =>
                 pools[id].ssh_tunnel \notin tunnels']_vars

\* An entry owns an open tunnel while a connect for the same identifier
\* holds a second one, about to replace the entry.
C12_Witness ==
    \E id \in DOMAIN pools, p \in Tasks :
        /\ pools[id].ssh_tunnel \in tunnels
        /\ task[p].uuid = id /\ task[p].pc = "c_insert"
        /\ task[p].drv \in tunnels
        /\ task[p].drv # pools[id].ssh_tunnel

\* C16: when the retry of a data operation fails, the caller receives the
\* retry's error as it is, not the error of the first attempt.
C16_RetryErrorVerbatim ==
    \A p \in Tasks :
        (DataOp(task[p]) /\ task[p].pc = "done" /\ task[p].second = "err") =>
            /\ task[p].err2 # NoError
            /\ task[p].ret = RetErr(task[p].err2)

\* A data operation has returned the error of its retry, a driver error,
\* which differs from the error of its first attempt (which found no cached
\* driver, the entry having been removed by another caller).
C16_Witness ==
    \E p \in Tasks :
        /\ DataOp(task[p]) /\ task[p].pc = "done"
        /\ task[p].first = "err" /\ task[p].second = "err"
        /\ task[p].err1 = ErrNotFound /\ task[p].err2 = ErrDriverOp
        /\ task[p].ret = RetErr(ErrDriverOp)

\* C17: get_connection on an identifier whose entry is Connected returns
\* that entry's driver handle in one step, without a driver, tunnel or test
\* and with the pool map unchanged; otherwise it performs connect.
C17_GetConnectionFastPath ==
    [][\A p \in Tasks :
          task[p].pc = "idle" /\ task'[p].op = "get_connection" =>
              IF get_status(pools, task'[p].uuid) = Connected
              THEN /\ task'[p].pc = "done"
                   /\ task'[p].ret =
                        Ret("Ok", "-", TRUE, NoError, get_cached(pools, task'[p].uuid))
                   /\ task'[p].ret.handle # 0
                   /\ UNCHANGED <<pools, drivers, tunnels>>
              ELSE /\ task'[p].pc = "c_mark"
                   /\ task'[p].ctx = "get_connection"]_vars

\* A get_connection has returned the cached handle of a Connected entry
\* without running connect.
C17_Witness ==
    \E p \in Tasks :
        /\ task[p].pc = "done" /\ task[p].op = "get_connection"
        /\ task[p].cret = "none" /\ task[p].ret.tag = "Ok"
        /\ get_status(pools, task[p].uuid) = Connected
        /\ task[p].ret.handle = get_cached(pools, task[p].uuid)

\* The arguments the row mutation op must refuse: an empty primary key or
\* one whose columns and values differ in number (update, delete), no
\* updates / values (update, insert), a raw SQL fragment the validator
\* rejects (update, insert).
Refused(op, q) ==
    \/ op \in {"pool_update_table_row", "pool_delete_table_row"}
          /\ (q.pk_cols = 0 \/ q.pk_cols # q.pk_vals)
    \/ op \in {"pool_update_table_row", "pool_insert_table_row"}
          /\ (q.items = 0 \/ q.frag = "raw_rejected")

\* This step is the call of a row mutation by task p.
RowMutationCalled(p) ==
    /\ task[p].pc = "idle"
    /\ task'[p].op \in {"pool_update_table_row", "pool_delete_table_row",
                         "pool_insert_table_row"}

\* C15: a row mutation whose arguments fail validation returns an error at
\* once: it does not take the connect lock, connect, reconnect or run a
\* statement, and the pool is unchanged.
C15_ValidationNotRetried ==
    [][\A p \in Tasks :
          RowMutationCalled(p) /\ Refused(task'[p].op, task'[p].req) =>
              /\ task'[p].pc = "done"
              /\ task'[p].ret.tag = "Err"
              /\ task'[p].ret.msg \in
                    {ErrPkMismatch, ErrNoUpdates, ErrNoValues, ErrRawSql,
                     ErrNoRecord, ErrItemShape}
              /\ task'[p].attempts = 0 /\ task'[p].reconnects = 0
              /\ UNCHANGED <<pools, drivers, tunnels, lock>>]_vars

\* An update with a rejected raw SQL fragment has returned its error while
\* another caller holds the identifier's connect lock inside a connect.
C15_Witness ==
    \E p, q \in Tasks :
        /\ task[p].pc = "done" /\ task[p].op = "pool_update_table_row"
        /\ task[p].req.frag = "raw_rejected"
        /\ task[p].ret = RetErr(ErrRawSql)
        /\ task[q].pc = "c_test" /\ task[q].uuid = task[p].uuid
        /\ lock[task[p].uuid] = q

\* C18: create_driver rejects a config with SSH enabled and a sqlite
\* db_type as a configuration error, returning no driver and opening no
\* tunnel.
C18_SqliteSshRejected ==
    \A p \in Tasks :
        (/\ task[p].pc = "f_done" /\ task[p].cfg.ssh_enabled
         /\ task[p].cfg.db_type \in {"sqlite", "sqlite3"}) =>
            /\ task[p].cret \in ConfigErrors
            /\ ~task[p].tun

\* The identifier the stepping task p works on.
ActorId(p) == IF task[p].pc = "idle" THEN task'[p].uuid ELSE task[p].uuid

\* Task p could take the connect lock it is waiting for.
CanLock(p) == ENABLED (EnsureLock(p) \/ ReconnectLock(p))

\* C19: a step of an operation on one identifier leaves the entry of every
\* other identifier (driver, status, last error, tunnel) and its connect
\* lock as they are, and a caller waiting for the lock of its identifier is
\* held up by that lock only.
C19_IdentifiersIndependent ==
    [][/\ \A p \in Tasks :
             task'[p] # task[p] =>
                 \A b \in PairIDs \ {ActorId(p)} :
                     /\ b \in DOMAIN pools' <=> b \in DOMAIN pools
                     /\ b \in DOMAIN pools => pools'[b] = pools[b]
                     /\ b \in DOMAIN pools /\ pools[b].ssh_tunnel \in tunnels =>
                           pools[b].ssh_tunnel \in tunnels'
                     /\ lock'[b] = lock[b]
       /\ \A p \in Tasks :
             task[p].pc \in {"e_lock", "r_lock"} /\ lock[task[p].uuid] = 0 =>
                 CanLock(p)]_vars

\* Caller 1 is inside the connect of a reconnect on "A", holding the lock of
\* "A", while another caller holds the lock of "B", whose entry is Connected
\* behind an open tunnel.
C19_Witness ==
    \E q \in Tasks :
        /\ task[1].uuid = "A" /\ task[1].pc = "c_insert"
        /\ task[1].ctx = "reconnect" /\ lock["A"] = 1
        /\ task[q].uuid = "B" /\ lock["B"] = q
        /\ "B" \in DOMAIN pools /\ pools["B"].status = Connected
        /\ pools["B"].ssh_tunnel \in tunnels

\* The connections of id that are alive: the driver of its entry and the
\* drivers its connects have constructed and not yet stored or dropped.
LiveConnections(id) ==
    {pools[k].driver : k \in DOMAIN pools \cap {id}}
        \cup {task[p].drv : p \in {q \in Tasks : /\ task[q].uuid = id
                                                  /\ task[q].pc \in {"c_test", "c_insert"}}}

\* C21: there is at most one live connection per identifier: the drivers and
\* tunnels constructed for it and not yet released, held by its entry or by
\* a connect in progress, never number more than one, also when connect is
\* called on an identifier that has an entry.
C21_OneLiveConnection ==
    \A id \in IDs :
        /\ Cardinality(LiveConnections(id)) <= 1
        /\ Cardinality(LiveConnections(id) \cap tunnels) <= 1

\* C22: health_check on an existing entry tests the driver it found cached
\* and nothing else: it constructs no driver and no tunnel and leaves the
\* driver, config and tunnel of every entry as they are; with the result in
\* hand it sets the entry Connected without an error when the result is a
\* success, and Disconnected with the result's message otherwise.
C22_HealthCheckFrame ==
    [][\A p \in Tasks :
          HealthStep(p) =>
              /\ DOMAIN drivers' \subseteq DOMAIN drivers
              /\ tunnels' = tunnels
              /\ DOMAIN pools' = DOMAIN pools
              /\ \A id \in DOMAIN pools :
                    /\ pools'[id].driver = pools[id].driver
                    /\ pools'[id].config = pools[id].config
                    /\ pools'[id].ssh_tunnel = pools[id].ssh_tunnel
              /\ task[p].pc = "idle" /\ task'[p].uuid \in DOMAIN pools =>
                    /\ task'[p].pc = "h_test"
                    /\ task'[p].drv = pools[task'[p].uuid].driver
                    /\ pools' = pools
              /\ task[p].pc = "h_test" =>
                    /\ pools' = pools
                    /\ \A d \in DOMAIN drivers' \ {task[p].drv} : drivers'[d] = drivers[d]
              /\ task[p].pc = "h_write" /\ task[p].uuid \in DOMAIN pools =>
                    /\ task'[p].pc = "done" /\ task'[p].ret.tag = "Ok"
                    /\ task'[p].ret.success <=> task[p].tres = "ok"
                    /\ IF task'[p].ret.success
                       THEN /\ pools'[task[p].uuid].status = Connected
                            /\ pools'[task[p].uuid].last_error = NoError
                       ELSE /\ pools'[task[p].uuid].status = Disconnected
                            /\ pools'[task[p].uuid].last_error = task'[p].ret.msg
                            /\ task'[p].ret.msg # NoError]_vars

\* A health_check has returned an unsuccessful result for a driver that had
\* passed a test before, and the entry, which still holds that driver, is
\* Disconnected with the result's message.
C22_Witness ==
    \E p \in Tasks :
        /\ task[p].pc = "done" /\ task[p].op = "health_check"
        /\ task[p].ret = Ret("Ok", "-", FALSE, MsgTestFailed, 0)
        /\ task[p].uuid \in DOMAIN pools
        /\ pools[task[p].uuid].status = Disconnected
        /\ pools[task[p].uuid].last_error = MsgTestFailed
        /\ drivers[pools[task[p].uuid].driver].verified

\* C23: a successful connect on an identifier that has an entry replaces the
\* entry as a whole: the cached driver is the new one and not the old one,
\* the status is Connected and there is no last error; in no step does an
\* entry take a new driver while it keeps its old status or error.
C23_EntryReplacedWhole ==
    [][/\ \A p \in Tasks :
             (/\ ConnectReturned(p) /\ task'[p].cret = "ok"
              /\ task[p].uuid \in DOMAIN pools) =>
                 /\ get_cached(pools', task[p].uuid) = task[p].drv
                 /\ get_cached(pools', task[p].uuid) # pools[task[p].uuid].driver
                 /\ pools'[task[p].uuid].status = Connected
                 /\ pools'[task[p].uuid].last_error = NoError
                 /\ pools'[task[p].uuid].config = task[p].cfg
       /\ \A id \in DOMAIN pools \cap DOMAIN pools' :
             IF pools'[id].driver # pools[id].driver
             THEN \E p \in Tasks :
                     /\ task[p].pc = "c_insert" /\ task[p].uuid = id
                     /\ pools'[id].driver = task[p].drv
                     /\ pools'[id].config = task[p].cfg
                     /\ pools'[id].status =
                           (IF task[p].tres = "ok" THEN Connected ELSE Disconnected)
                     /\ pools'[id].last_error =
                           (IF task[p].tres = "ok" THEN NoError ELSE MsgTestFailed)
             ELSE /\ pools'[id].config = pools[id].config
                  /\ pools'[id].ssh_tunnel = pools[id].ssh_tunnel]_vars

\* A pool_connect has returned Connected and its driver is cached without an
\* error, while the other caller is still testing the driver it took from
\* the entry that was cached before.
C23_Witness ==
    \E p, q \in Tasks :
        /\ task[p].pc = "done" /\ task[p].op = "pool_connect"
        /\ task[p].cret = "ok" /\ task[p].ret.status = Connected
        /\ task[p].uuid \in DOMAIN pools
        /\ pools[task[p].uuid].status = Connected
        /\ pools[task[p].uuid].last_error = NoError
        /\ task[q].pc = "h_test" /\ task[q].uuid = task[p].uuid
        /\ task[q].drv \in DOMAIN drivers
        /\ task[q].drv # pools[task[p].uuid].driver

\* This step is the one in which task p's ensure_connection returns Ok: it
\* found a cached driver, or its connect succeeded.
EnsureReturnedOk(p) ==
    /\ task'[p].pc = "a_get"
    /\ \/ task[p].pc = "e_check"
       \/ InConnect(task[p]) /\ task[p].ctx = "ensure"

\* C29: whenever the ensure-connected step returns success the pool holds a
\* live driver for the identifier, its status being Connected, also when an
\* entry left Disconnected by a failed connect, a failed health check or
\* mark_disconnected was cached beforehand.
C29_EnsuredIsConnected ==
    [][\A p \in Tasks :
          EnsureReturnedOk(p) => get_status(pools', task[p].uuid) = Connected]_vars

\* This step is the one in which task p's reconnect returns an error: the
\* configuration could not be fetched, or its connect failed.
ReconnectFailed(p) ==
    /\ task'[p].pc = "done"
    /\ \/ task[p].pc = "r_disc"
       \/ InConnect(task[p]) /\ task[p].ctx = "reconnect"

\* C30: reconnect removes the entry before it fetches the configuration and
\* connects; when the fetch or the connect fails, the data operation returns
\* that error without a second attempt and the identifier is left with
\* status Disconnected.
C30_FailedReconnect ==
    [][\A p \in Tasks :
          /\ task[p].pc = "r_disc" /\ task'[p] # task[p] =>
                task[p].uuid \notin DOMAIN pools'
          /\ ReconnectFailed(p) =>
                /\ task'[p].ret.tag = "Err"
                /\ task'[p].attempts = 1 /\ task'[p].second = "-"
                /\ get_status(pools', task[p].uuid) = Disconnected]_vars

\* This step is a read by task p of the status, the last error or the
\* cached driver.
ReadStep(p) ==
    /\ task'[p] # task[p]
    /\ \/ task[p].pc = "idle" /\ task'[p].op \in {"pool_get_status", "get_cached"}
       \/ task[p].pc = "s_error"

\* C24: the reads of status, last error and cached driver change nothing of
\* the pool, and give the fields of the entry; for an identifier without an
\* entry they give Disconnected, no error and no handle.
C24_PureReads ==
    [][\A p \in Tasks :
          ReadStep(p) =>
              LET id == ActorId(p)
                  known == id \in DOMAIN pools
              IN
              /\ UNCHANGED <<pools, drivers, tunnels, lock>>
              /\ task[p].pc = "idle" /\ task'[p].op = "pool_get_status" =>
                    task'[p].ret.status =
                        (IF known THEN pools[id].status ELSE Disconnected)
              /\ task[p].pc = "s_error" =>
                    /\ task'[p].ret.tag = "Ok"
                    /\ task'[p].ret.status = task[p].ret.status
                    /\ task'[p].ret.msg =
                          (IF known THEN pools[id].last_error ELSE NoError)
              /\ task'[p].op = "get_cached" =>
                    task'[p].ret.handle = (IF known THEN pools[id].driver ELSE 0)]_vars

\* pool_get_status has answered Disconnected without an error for an
\* identifier that has no entry, after a pool_disconnect of the other caller.
C24_Witness ==
    \E q \in Tasks :
        /\ task[1].pc = "done" /\ task[1].op = "pool_get_status"
        /\ task[1].ret = Ret("Ok", Disconnected, TRUE, NoError, 0)
        /\ task[1].uuid \notin DOMAIN pools
        /\ task[q].pc = "done" /\ task[q].op = "pool_disconnect"
        /\ task[q].uuid = task[1].uuid

\* C28: when two callers run the ensure-connected step for one identifier
\* that has no entry and the connect of one succeeds, the other, once it has
\* the lock, finds the driver cached and returns without constructing
\* anything: one driver has been constructed for the identifier.
C28_SecondFindsConnected ==
    \A p, q \in Tasks :
        (p # q /\ task[p].uuid = task[q].uuid /\ task[p].cret = "ok") =>
            /\ ~InConnect(task[q])
            /\ task[q].cret # "ok"
            /\ task[q].pc = "a_get" => task[q].cret = "none"
            /\ get_status(pools, task[p].uuid) = Connected
            /\ DOMAIN drivers = {get_cached(pools, task[p].uuid)}

\* Both callers have returned Ok from the ensure-connected step of the same
\* identifier: one from its connect, the other without a connect.
C28_Witness ==
    \E p, q \in Tasks :
        /\ task[p].pc = "a_get" /\ task[p].cret = "ok"
        /\ task[q].pc = "a_get" /\ task[q].cret = "none"
        /\ task[q].uuid = task[p].uuid
        /\ get_status(pools, task[p].uuid) = Connected

\* The double-quoted names of statement text s, unescaped and in order, as a
\* SQL lexer reads them: a name runs from a double quote to the next double
\* quote that is not doubled, a string literal likewise between apostrophes.
RECURSIVE Lex(_, _, _, _, _)
Lex(s, i, mode, cur, acc) ==
    IF i > Len(s)
    THEN (IF mode = "text" THEN acc ELSE Append(acc, <<"unterminated">>))
    ELSE LET c == s[i]
             twice == i < Len(s) /\ s[i + 1] = c
         IN
         CASE mode = "text" ->
                IF c = DQ THEN Lex(s, i + 1, "name", << >>, acc)
                ELSE IF c = SQ THEN Lex(s, i + 1, "string", << >>, acc)
                ELSE Lex(s, i + 1, "text", << >>, acc)
           [] mode = "name" ->
                IF c # DQ THEN Lex(s, i + 1, "name", Append(cur, c), acc)
                ELSE IF twice THEN Lex(s, i + 2, "name", Append(cur, DQ), acc)
                ELSE Lex(s, i + 1, "text", << >>, Append(acc, cur))
           [] mode = "string" ->
                IF c # SQ THEN Lex(s, i + 1, "string", cur, acc)
                ELSE IF twice THEN Lex(s, i + 2, "string", cur, acc)
                ELSE Lex(s, i + 1, "text", << >>, acc)

Identifiers(s) == Lex(s, 1, "text", << >>, << >>)

\* The names a statement for arguments a is about: schema (where the engine
\* has schemas) and table, the columns of updates / values, the primary-key
\* columns.
GivenNames(a) ==
    (IF a.db \in {"sqlite", "sqlite3"} THEN <<a.table>> ELSE <<a.schema, a.table>>)
        \o [i \in 1..Len(a.items) |-> a.items[i].column]
        \o a.pk_cols

\* The place of the first piece tok in text s.
IndexOf(s, tok) ==
    CHOOSE i \in 1..Len(s) : s[i] = tok /\ \A j \in 1..(i - 1) : s[j] # tok

Before(s, tok) == SubSeq(s, 1, IndexOf(s, tok) - 1)

After(s, tok) == SubSeq(s, IndexOf(s, tok) + 1, Len(s))

\* The parts of text s between the pieces sep.
RECURSIVE Split(_, _)
Split(s, sep) ==
    IF \A i \in DOMAIN s : s[i] # sep THEN <<s>>
    ELSE <<Before(s, sep)>> \o Split(After(s, sep), sep)

\* The places of a built statement where names stand: the table reference,
\* the left-hand sides of the SET clause or the column list, the left-hand
\* sides of the WHERE clause.
NameTexts(op, sql) ==
    LET lhs(parts) == [i \in 1..Len(parts) |-> Before(parts[i], " = ")]
        wheres == lhs(Split(After(sql, " WHERE "), " AND "))
    IN
    CASE op = "pool_update_table_row" ->
           <<Before(After(sql, "UPDATE "), " SET ")>>
               \o lhs(Split(Before(After(sql, " SET "), " WHERE "), ", "))
               \o wheres
      [] op = "pool_delete_table_row" ->
           <<Before(After(sql, "DELETE FROM "), " WHERE ")>> \o wheres
      [] op = "pool_insert_table_row" ->
           <<Before(After(sql, "INSERT INTO "), " (")>>
               \o Split(Before(After(sql, " ("), ") VALUES ("), ", ")

\* C25: in every generated UPDATE, DELETE and INSERT each name the caller
\* gave (schema, table, updated / inserted column, primary-key column)
\* stands escaped between double quotes, so that the places of the
\* statement where names stand read back as exactly those names, in order,
\* also when a name holds a double quote.
C25_IdentifiersEscaped ==
    \A p \in Tasks :
        (task[p].pc = "built" /\ task[p].err = "ok") =>
            LET texts == NameTexts(task[p].op, task[p].sql) IN
            /\ \A i \in DOMAIN texts :
                  Head(texts[i]) = DQ /\ texts[i][Len(texts[i])] = DQ
            /\ Identifiers(join(texts, ", ")) = GivenNames(task[p].args)

\* An UPDATE has been built for a schema, a table, an updated column and a
\* primary-key column that each hold a double quote.
C25_Witness ==
    \E p \in Tasks :
        /\ task[p].pc = "built" /\ task[p].op = "pool_update_table_row"
        /\ task[p].err = "ok" /\ task[p].args.db = "postgres"
        /\ task[p].args.schema = <<"s", DQ>> /\ task[p].args.table = <<"t", DQ, "x">>
        /\ task[p].args.items[1].column = <<DQ, "c">>
        /\ task[p].args.pk_cols = << <<DQ, "c">> >>
        /\ Len(task[p].sql) > 0

\* The value texts of a built UPDATE (the right-hand sides of its SET
\* clause) or INSERT (the members of its VALUES list), in order.
ValueTexts(op, sql) ==
    IF op = "pool_update_table_row"
    THEN LET parts == Split(Before(After(sql, " SET "), " WHERE "), ", ") IN
         [i \in 1..Len(parts) |-> After(parts[i], " = ")]
    ELSE Split(Before(After(sql, ") VALUES ("), ")"), ", ")

\* The checks before the loop over updates / values have passed.
LoopReached(op, a) ==
    /\ a.items # << >> /\ a.db # "-"
    /\ op = "pool_update_table_row" =>
          a.pk_cols # << >> /\ Len(a.pk_cols) = Len(a.pk_vals)

\* C26: in update and insert a value flagged isRawSql is in the statement as
\* it was given if and only if validate_raw_sql_value accepts it; when the
\* validator rejects it the command returns an error and no statement is
\* built; a value that is not flagged is rendered by format_sql_value, and
\* a string so rendered is never the string as given.
C26_RawSqlValidated ==
    \A p \in Tasks :
        LET t == task[p] IN
        (/\ t.pc = "built"
         /\ t.op \in {"pool_update_table_row", "pool_insert_table_row"}
         /\ LoopReached(t.op, t.args)) =>
            LET items == t.args.items
                odd(i) == \/ items[i].shape # "object"
                          \/ items[i].isRawSql /\ items[i].value.kind # "string"
                rejected(i) ==
                    /\ items[i].isRawSql
                    /\ validate_raw_sql_value(items[i].value.text, t.args.db) # "ok"
            IN
            IF \E i \in DOMAIN items : odd(i)
            THEN t.err \in {ErrItemShape, ErrRawString, ErrRawSql} /\ t.sql = << >>
            ELSE IF \E i \in DOMAIN items : rejected(i)
            THEN t.err = ErrRawSql /\ t.sql = << >>
            ELSE /\ t.err = "ok"
                 /\ Len(ValueTexts(t.op, t.sql)) = Len(items)
                 /\ \A i \in DOMAIN items :
                       IF items[i].isRawSql
                       THEN ValueTexts(t.op, t.sql)[i] = items[i].value.text
                       ELSE /\ ValueTexts(t.op, t.sql)[i] = format_sql_value(items[i].value)
                            /\ items[i].value.kind = "string" =>
                                  ValueTexts(t.op, t.sql)[i] # items[i].value.text

\* An INSERT has been built whose value is the raw fragment as given, the
\* validator having accepted it.
C26_Witness ==
    \E p \in Tasks :
        /\ task[p].pc = "built" /\ task[p].op = "pool_insert_table_row"
        /\ task[p].err = "ok"
        /\ task[p].args.items[1].isRawSql
        /\ task[p].args.items[1].value = Value("string", <<"N">>)
        /\ ValueTexts(task[p].op, task[p].sql) = << <<"N">> >>

\* C27: the WHERE clause of a generated UPDATE or DELETE is the AND of one
\* equality per declared primary-key column, in declared order, the i-th
\* column against the i-th value as the typed formatter renders it, with no
\* column dropped and nothing added; without a primary key, or with columns
\* and values differing in number, no statement is built.
C27_WhereClause ==
    \A p \in Tasks :
        LET t == task[p] IN
        (/\ t.pc = "built"
         /\ t.op \in {"pool_update_table_row", "pool_delete_table_row"}) =>
            /\ (t.args.pk_cols = << >> \/ Len(t.args.pk_cols) # Len(t.args.pk_vals)) =>
                  t.err = ErrPkMismatch /\ t.sql = << >>
            /\ t.err = "ok" =>
                  LET preds == Split(After(t.sql, " WHERE "), " AND ") IN
                  /\ Len(preds) = Len(t.args.pk_cols)
                  /\ Len(preds) = Len(t.args.pk_vals)
                  /\ \A i \in DOMAIN preds :
                        /\ Before(preds[i], " = ") = quoted(t.args.pk_cols[i])
                        /\ After(preds[i], " = ") = format_sql_value(t.args.pk_vals[i])

\* A DELETE has been built for a primary key of two different columns with
\* two different values.
C27_Witness ==
    \E p \in Tasks :
        /\ task[p].pc = "built" /\ task[p].op = "pool_delete_table_row"
        /\ task[p].err = "ok"
        /\ Len(task[p].args.pk_cols) = 2
        /\ task[p].args.pk_cols[1] # task[p].args.pk_cols[2]
        /\ task[p].args.pk_vals[1] # task[p].args.pk_vals[2]
        /\ Len(Split(After(task[p].sql, " WHERE "), " AND ")) = 2

\* C33: create_driver validates the config before it opens a tunnel: when
\* it ends in a configuration error of the backend (unknown db_type, sqlite
\* without a file path), no SSH tunnel has been opened, also with SSH
\* enabled and complete SSH parameters.
C33_ValidatedBeforeTunnel ==
    \A p \in Tasks :
        (/\ task[p].pc = "f_done"
         /\ task[p].cret \in {ErrUnsupported, ErrFilePath}) => ~task[p].tun

\* C34: the response of pool_connect agrees with the pool in the state it
\* returns in: the returned status is the status of the identifier, and with
\* a returned status of Disconnected the returned error is its last error.
C34_ResponseAgrees ==
    [][\A p \in Tasks :
          (/\ task[p].op = "pool_connect" /\ task[p].pc # "done"
           /\ task'[p].pc = "done" /\ task'[p].ret.tag = "Ok") =>
              /\ task'[p].ret.status = get_status(pools', task[p].uuid)
              /\ task'[p].ret.status = Disconnected =>
                    task'[p].ret.msg = get_last_error(pools', task[p].uuid)]_vars

\* C35: a disconnect is not undone by a connect that was in flight: a
\* connect of get_connection that was called while the identifier had an
\* entry, and finds the entry removed when it reaches its insert, does not
\* put an entry back.
C35_DisconnectStays ==
    [][\A p \in Tasks :
          (/\ task[p].pc = "c_insert" /\ task[p].ctx = "get_connection"
           /\ ~task[p].seen_absent
           /\ task[p].uuid \notin DOMAIN pools
           /\ task'[p] # task[p]) =>
              task[p].uuid \notin DOMAIN pools']_vars

\* C36: what health_check writes describes the driver that is in the entry
\* at the write: when the entry holds another driver than the one the check
\* captured and tested, the check leaves the entry as it is.
C36_WritesOwnDriver ==
    [][\A p \in Tasks :
          (/\ task[p].pc = "h_write" /\ task'[p] # task[p]
           /\ task[p].uuid \in DOMAIN pools
           /\ pools[task[p].uuid].driver # task[p].drv) =>
              pools'[task[p].uuid] = pools[task[p].uuid]]_vars

\* C37: disconnect is total and idempotent: pool_disconnect returns Ok for
\* every identifier, on an identifier without an entry it leaves the pool,
\* the drivers and the tunnels as they are, and a second disconnect of the
\* pool it leaves changes nothing.
C37_DisconnectIdempotent ==
    [][\A p \in Tasks :
          (/\ task[p].pc = "idle" /\ task'[p].op = "pool_disconnect"
           /\ task'[p] # task[p]) =>
              LET id == task'[p].uuid IN
              /\ task'[p].pc = "done" /\ task'[p].ret = RetOk
              /\ id \notin DOMAIN pools'
              /\ \A k \in DOMAIN pools \ {id} :
                    k \in DOMAIN pools' /\ pools'[k] = pools[k]
              /\ id \notin DOMAIN pools =>
                    pools' = pools /\ drivers' = drivers /\ tunnels' = tunnels
              /\ disconnect(pools', id) = pools'
              /\ disconnect(disconnect(pools, id), id) = disconnect(pools, id)]_vars

\* Two pool_disconnect calls of the same identifier have returned one after
\* the other, the later one on an identifier without an entry.
C37_Witness ==
    \E p, q \in Tasks :
        /\ p # q
        /\ task[p].pc = "done" /\ task[p].op = "pool_disconnect"
        /\ task[q].pc = "done" /\ task[q].op = "pool_disconnect"
        /\ task[p].uuid = task[q].uuid
        /\ task[p].ret = RetOk /\ task[q].ret = RetOk
        /\ task[p].uuid \notin DOMAIN pools

\* C38: mark_disconnected and touch create no entry and leave driver, config
\* and tunnel of every entry alone: on an existing entry mark_disconnected
\* sets status to Disconnected and last_error to the error it is given and
\* touch changes only last_used; on an absent identifier the pool stays as
\* it is; no driver is dropped and no tunnel closed.
C38_MarkAndTouchFrame ==
    [][/\ \A p \in Tasks :
            (/\ task[p].pc = "idle" /\ task'[p] # task[p]
             /\ task'[p].op \in {"mark_disconnected", "touch"}) =>
                LET id == task'[p].uuid IN
                /\ DOMAIN pools' = DOMAIN pools
                /\ drivers' = drivers /\ tunnels' = tunnels
                /\ \A k \in DOMAIN pools :
                      /\ pools'[k].driver = pools[k].driver
                      /\ pools'[k].config = pools[k].config
                      /\ pools'[k].ssh_tunnel = pools[k].ssh_tunnel
                      /\ k # id => pools'[k] = pools[k]
                /\ (id \in DOMAIN pools /\ task'[p].op = "touch") =>
                      pools'[id] = [pools[id] EXCEPT !.last_used = "touch"]
                /\ (id \in DOMAIN pools /\ task'[p].op = "mark_disconnected") =>
                      \E e \in {NoError, MsgMarked} :
                          pools'[id] = [pools[id] EXCEPT !.status = Disconnected,
                                                         !.last_error = e]
       /\ \A id \in PairIDs, e \in {NoError, MsgMarked} :
            /\ id \in DOMAIN pools =>
                  mark_disconnected(pools, id, e)[id].last_error = e
            /\ id \notin DOMAIN pools =>
                  /\ mark_disconnected(pools, id, e) = pools
                  /\ touch(pools, id) = pools]_vars

\* touch has returned on an entry that mark_disconnected had marked with an
\* error: the entry is used at the touch, still Disconnected with that error
\* and with a driver.
C38_Witness ==
    \E p \in Tasks :
        /\ task[p].pc = "done" /\ task[p].op = "touch"
        /\ task[p].uuid \in DOMAIN pools
        /\ pools[task[p].uuid].last_used = "touch"
        /\ pools[task[p].uuid].status = Disconnected
        /\ pools[task[p].uuid].last_error = MsgMarked
        /\ pools[task[p].uuid].driver \in DOMAIN drivers

\* C32: every data operation terminates and nothing deadlocks: under fair
\* scheduling a caller that waits for a connect lock gets it, a called
\* operation returns, and a lock is held only by a caller that is inside
\* ensure_connection or reconnect of that identifier (it is released on
\* every return, the error returns included).
C32_DataOperationsTerminate ==
    /\ \A p \in Tasks :
          /\ (task[p].pc \in {"e_lock", "r_lock"})
                ~> (task[p].pc \notin {"e_lock", "r_lock"})
          /\ (task[p].pc # "idle") ~> (task[p].pc = "done")
    /\ [](\A id \in IDs :
             lock[id] # 0 => /\ InCritical(lock[id])
                             /\ task[lock[id]].uuid = id)

\* One caller waits for the connect lock to reconnect after its failed
\* attempt while the other holds it in the create_driver of its
\* ensure_connection.
C32_Witness ==
    \E p, q \in Tasks :
        /\ task[p].pc = "r_lock" /\ task[p].attempts = 1
        /\ task[q].pc = "c_create" /\ task[q].ctx = "ensure"
        /\ task[q].uuid = task[p].uuid
        /\ lock[task[p].uuid] = q

\* C31: one connect lock per identifier for the whole lifetime: a lock in
\* the registry is never replaced or removed, every call of get_connect_lock
\* returns the lock the registry holds for its identifier, so two calls with
\* the same identifier (concurrent first calls included) return the same
\* lock, and different identifiers have different locks.
C31_OneLockPerIdentifier ==
    [][/\ \A id \in DOMAIN lock : id \in DOMAIN lock' /\ lock'[id] = lock[id]
       /\ \A i, j \in DOMAIN lock' : i # j => lock'[i] # lock'[j]
       /\ \A p, q \in Tasks :
             (/\ task'[p].pc = "done" /\ task'[q].pc = "done") =>
                /\ task'[p].ret.handle = lock'[task'[p].uuid]
                /\ (task'[p].ret.handle = task'[q].ret.handle)
                      <=> (task'[p].uuid = task'[q].uuid)]_vars

\* Two first calls for one identifier run concurrently: one has returned the
\* lock it created; the other, which had found none in its first check, is
\* at its insert step with that lock already in the registry.
C31_Witness ==
    \E p, q \in Tasks :
        /\ p # q
        /\ task[p].pc = "done" /\ task[q].pc = "l_insert"
        /\ task[p].uuid = task[q].uuid
        /\ task[p].uuid \in DOMAIN lock
        /\ task[p].ret.handle = lock[task[p].uuid]

====
